---- MODULE Spec2Model ----
(***************************************************************************)
(* Model of the computational core of the personal-finance backend:        *)
(* TaxCalculator (slab tax, both regimes, deduction capping, regime        *)
(* comparison and the calculate_tax route), CibilAnalyzer (score           *)
(* prediction, scenario simulation) and TransactionCategorizer.            *)
(*                                                                         *)
(* Every call is one action: it draws its arguments from bounded sets,     *)
(* runs the operator translated from the Python function and records the   *)
(* call in op / args / ret.  Return hands the response back.               *)
(*                                                                         *)
(* Money.  Rupee amounts given to the functions (incomes, deductions,      *)
(* transaction amounts) are integers.  Tax amounts are Python floats; they *)
(* are kept exactly, as integers in units of 1/Scale rupee: every slab     *)
(* rate is a multiple of 1/20 and the cess is 1/25 of the income tax, so   *)
(* every tax amount is a multiple of 1/500 rupee.                          *)
(***************************************************************************)
EXTENDS Integers, Sequences, FiniteSets, TLC

VARIABLES
    op,                \* the operation of the call in progress, "idle" between calls
    args,              \* its arguments
    ret,               \* what it returned
    tax_calculations,  \* TaxCalculation table: (user, financial year) row, or none
    cibil_scores,      \* CibilScore table: the rows in the order they were added
    transactions_table \* Transaction table: the row of every transaction id

vars == <<op, args, ret, tax_calculations, cibil_scores, transactions_table>>

\* the database tables
tables == <<tax_calculations, cibil_scores, transactions_table>>

Max(a, b) == IF a >= b THEN a ELSE b
Min(a, b) == IF a <= b THEN a ELSE b
Abs(a) == IF a >= 0 THEN a ELSE 0 - a

\* Units of a rupee in which float tax amounts are kept: 20 (rates) * 25 (cess).
Scale == 20 * 25

(***************************************************************************)
(* TaxCalculator                                                           *)
(***************************************************************************)

\* float('inf'), the upper end of the last slab
Inf == 2000000000

\* rate is in percent (0.05 is 5)
old_regime_slabs ==
    << [min |-> 0,       max |-> 250000,  rate |-> 0],
       [min |-> 250000,  max |-> 500000,  rate |-> 5],
       [min |-> 500000,  max |-> 1000000, rate |-> 20],
       [min |-> 1000000, max |-> Inf,     rate |-> 30] >>

new_regime_slabs ==
    << [min |-> 0,       max |-> 300000,  rate |-> 0],
       [min |-> 300000,  max |-> 600000,  rate |-> 5],
       [min |-> 600000,  max |-> 900000,  rate |-> 10],
       [min |-> 900000,  max |-> 1200000, rate |-> 15],
       [min |-> 1200000, max |-> 1500000, rate |-> 20],
       [min |-> 1500000, max |-> Inf,     rate |-> 30] >>

standard_deduction == 50000
rebate_87a == 12500
rebate_87a_new == 25000
RebateLimitOld == 500000
RebateLimitNew == 700000
CessPercent == 4

\* slab_income * slab['rate'], in 1/Scale rupee
SlabAmount(slab_income, rate) == slab_income * rate * (Scale \div 100)

\* the loop of _calculate_slab_tax from slab i on
RECURSIVE SlabLoop(_, _, _, _)
SlabLoop(slabs, i, remaining_income, total_tax) ==
    IF i > Len(slabs) \/ remaining_income <= 0
    THEN total_tax
    ELSE LET slab_income == Min(remaining_income, slabs[i].max - slabs[i].min)
         IN  IF slab_income > 0
             THEN SlabLoop(slabs, i + 1, remaining_income - slab_income,
                           total_tax + SlabAmount(slab_income, slabs[i].rate))
             ELSE SlabLoop(slabs, i + 1, remaining_income, total_tax)

\* mutant of _calculate_slab_tax: the rate of the slab the income ends in, on the
\* whole income
calculate_slab_tax_flat(taxable_income, slabs) ==
    IF taxable_income <= 0 THEN 0
    ELSE LET i == CHOOSE j \in 1..Len(slabs) :
                      slabs[j].min < taxable_income /\ taxable_income <= slabs[j].max
         IN  SlabAmount(taxable_income, slabs[i].rate)

\* mutant of _calculate_slab_tax: every slab but the first one takes its share
calculate_slab_tax_skip(taxable_income, slabs) ==
    SlabLoop(slabs, 2, taxable_income, 0)

calculate_slab_tax(taxable_income, slabs) == SlabLoop(slabs, 1, taxable_income, 0)

\* sum(deductions.values())
RECURSIVE SumValues(_)
SumValues(d) ==
    IF DOMAIN d = {} THEN 0
    ELSE LET k == CHOOSE x \in DOMAIN d : TRUE
         IN  d[k] + SumValues([x \in DOMAIN d \ {k} |-> d[x]])

\* (total_tax / gross_income * 100) if gross_income > 0 else 0: the rate in percent
\* is 100 * num / (Scale * den)
effective_rate(total_tax, gross_income) ==
    IF gross_income > 0 THEN [num |-> total_tax, den |-> gross_income]
    ELSE [num |-> 0, den |-> 1]

\* mutants of TaxableIncome: the clamp at 0 forgotten; abs() written for max(0, .)
TaxableIncome_unclamped(gross_income, total_deductions) == gross_income - total_deductions
TaxableIncome_abs(gross_income, total_deductions) == Abs(gross_income - total_deductions)

\* max(0, gross_income - total_deductions)
TaxableIncome(gross_income, total_deductions) == Max(0, gross_income - total_deductions)

\* mutant of the rebate: the comparison turned round, the rebate goes to the
\* incomes from the limit on
ApplyRebate_inverted(taxable_income, income_tax, limit, rebate) ==
    IF taxable_income >= limit THEN Max(0, income_tax - rebate * Scale) ELSE income_tax

\* mutant of the rebate: an income at the limit itself gets none
ApplyRebate_below_limit(taxable_income, income_tax, limit, rebate) ==
    IF taxable_income < limit THEN Max(0, income_tax - rebate * Scale) ELSE income_tax

\* the rebate under section 87A
ApplyRebate(taxable_income, income_tax, limit, rebate) ==
    IF taxable_income <= limit THEN Max(0, income_tax - rebate * Scale) ELSE income_tax

Cess(income_tax) == (income_tax * CessPercent) \div 100

calculate_old_regime_tax(gross_income, deductions) ==
    LET total_deductions == SumValues(deductions) + standard_deduction
        taxable_income == TaxableIncome(gross_income, total_deductions)
        income_tax == ApplyRebate(taxable_income,
                          calculate_slab_tax(taxable_income, old_regime_slabs),
                          RebateLimitOld, rebate_87a)
        cess == Cess(income_tax)
        total_tax == income_tax + cess
    IN  [gross_income |-> gross_income,
         total_deductions |-> total_deductions,
         taxable_income |-> taxable_income,
         income_tax |-> income_tax,
         cess |-> cess,
         total_tax |-> total_tax,
         effective_rate |-> effective_rate(total_tax, gross_income),
         deduction_breakdown |-> deductions]

calculate_new_regime_tax(gross_income) ==
    LET taxable_income == TaxableIncome(gross_income, standard_deduction)
        income_tax == ApplyRebate(taxable_income,
                          calculate_slab_tax(taxable_income, new_regime_slabs),
                          RebateLimitNew, rebate_87a_new)
        cess == Cess(income_tax)
        total_tax == income_tax + cess
    IN  [gross_income |-> gross_income,
         total_deductions |-> standard_deduction,
         taxable_income |-> taxable_income,
         income_tax |-> income_tax,
         cess |-> cess,
         total_tax |-> total_tax,
         effective_rate |-> effective_rate(total_tax, gross_income)]

\* mutants of the recommendation: the comparison reversed; 'old' on a tie
Recommend_reversed(old_total, new_total) == IF old_total > new_total THEN "old" ELSE "new"
Recommend_old_on_tie(old_total, new_total) == IF old_total <= new_total THEN "old" ELSE "new"

\* 'old' if old_total < new_total else 'new'
Recommend(old_total, new_total) == IF old_total < new_total THEN "old" ELSE "new"

\* (savings / max(old, new)) * 100 if max(old, new) > 0 else 0: the percentage is
\* 100 * num / den
SavingsPercentage(savings, old_total, new_total) ==
    IF Max(old_total, new_total) > 0
    THEN [num |-> savings, den |-> Max(old_total, new_total)]
    ELSE [num |-> 0, den |-> 1]

compare_regimes(gross_income, deductions) ==
    LET old_regime == calculate_old_regime_tax(gross_income, deductions)
        new_regime == calculate_new_regime_tax(gross_income)
        savings == Abs(old_regime.total_tax - new_regime.total_tax)
    IN  [old_regime |-> old_regime,
         new_regime |-> new_regime,
         recommended_regime |-> Recommend(old_regime.total_tax, new_regime.total_tax),
         savings |-> savings,
         savings_percentage |->
             SavingsPercentage(savings, old_regime.total_tax, new_regime.total_tax)]

\* the sum of the amounts of the transactions at the positions in idx
RECURSIVE SumAmounts(_, _)
SumAmounts(transactions, idx) ==
    IF idx = {} THEN 0
    ELSE LET i == CHOOSE x \in idx : TRUE
         IN  transactions[i].amount + SumAmounts(transactions, idx \ {i})

IsSalaryCredit(t) == t.transaction_type = "credit" /\ t.category = "Salary"
IsOtherCredit(t) ==
    /\ t.transaction_type = "credit"
    /\ t.category # "Salary"
    /\ t.category \in {"Investment", "Interest", "Dividend"}

calculate_income(transactions) ==
    LET salary_income ==
            SumAmounts(transactions,
                       {i \in 1..Len(transactions) : IsSalaryCredit(transactions[i])})
        other_income ==
            SumAmounts(transactions,
                       {i \in 1..Len(transactions) : IsOtherCredit(transactions[i])})
        gross_income == salary_income + other_income
    IN  [salary_income |-> salary_income,
         other_income |-> other_income,
         gross_income |-> gross_income,
         standard_deduction |-> standard_deduction,
         net_income |-> gross_income - standard_deduction]

\* categorize_expenses: debit amounts per category ("null" is None, filed as Others)
ExpenseCategory(t) == IF t.category = "null" THEN "Others" ELSE t.category

categorize_expenses(transactions) ==
    LET debits == {i \in 1..Len(transactions) : transactions[i].transaction_type = "debit"}
        cats == {ExpenseCategory(transactions[i]) : i \in debits}
        InCat(c) == SumAmounts(transactions,
                               {i \in debits : ExpenseCategory(transactions[i]) = c})
    IN  [c \in cats |-> InCat(c)]

DeductionSections == {"80C", "80D", "80G", "24b", "HRA"}
Limit80C == 150000
Limit80D == 25000
Limit80G == 100000
Limit24b == 200000

\* the loop over additional_deductions.items(): sections not in the dict are skipped
AddAdditional(deductions, additional_deductions) ==
    [s \in DOMAIN deductions |->
        IF s \in DOMAIN additional_deductions
        THEN deductions[s] + additional_deductions[s]
        ELSE deductions[s]]

\* mutant of the loop over the transactions: the limit of the section is applied
\* after every transaction (clamp, then accumulate)
RECURSIVE AddTransactions_clamp_each(_, _, _)
AddTransactions_clamp_each(deductions, transactions, i) ==
    IF i > Len(transactions) THEN deductions
    ELSE LET t == transactions[i]
             limit == CASE t.tax_section = "80C" -> Limit80C
                        [] t.tax_section = "80D" -> Limit80D
                        [] t.tax_section = "80G" -> Limit80G
                        [] t.tax_section = "24b" -> Limit24b
                        [] OTHER -> Inf
         IN  IF /\ t.transaction_type = "debit"
                /\ t.tax_relevant
                /\ t.tax_section \in DOMAIN deductions
             THEN AddTransactions_clamp_each(
                      [deductions EXCEPT ![t.tax_section] = Min(@ + t.amount, limit)],
                      transactions, i + 1)
             ELSE AddTransactions_clamp_each(deductions, transactions, i + 1)

\* the loop over the transactions, from transaction i on
RECURSIVE AddTransactions(_, _, _)
AddTransactions(deductions, transactions, i) ==
    IF i > Len(transactions) THEN deductions
    ELSE LET t == transactions[i]
         IN  IF /\ t.transaction_type = "debit"
                /\ t.tax_relevant
                /\ t.tax_section \in DOMAIN deductions
             THEN AddTransactions(
                      [deductions EXCEPT ![t.tax_section] = @ + t.amount],
                      transactions, i + 1)
             ELSE AddTransactions(deductions, transactions, i + 1)

\* mutant of the section limits: the limit of 24b left out
ApplyLimits_no24b(deductions) ==
    [deductions EXCEPT !["80C"] = Min(@, Limit80C),
                       !["80D"] = Min(@, Limit80D),
                       !["80G"] = Min(@, Limit80G)]

\* "Apply section limits"
ApplyLimits(deductions) ==
    [deductions EXCEPT !["80C"] = Min(@, Limit80C),
                       !["80D"] = Min(@, Limit80D),
                       !["80G"] = Min(@, Limit80G),
                       !["24b"] = Min(@, Limit24b)]

calculate_deductions(transactions, additional_deductions) ==
    ApplyLimits(
        AddTransactions(
            AddAdditional([s \in DeductionSections |-> 0], additional_deductions),
            transactions, 1))

(***************************************************************************)
(* Arguments of the tax calls                                              *)
(***************************************************************************)

\* a Transaction row: the columns the calculator reads ("null" is None)
Txn(type, category, amount, relevant, section) ==
    [transaction_type |-> type, category |-> category, amount |-> amount,
     tax_relevant |-> relevant, tax_section |-> section]

MaxIncomeSteps == 36
IncomeStep == 50000

\* gross incomes: a grid, the incomes around every slab and rebate threshold
\* (threshold + standard deduction), and negative ones
Incomes ==
    {k * IncomeStep : k \in 0..MaxIncomeSteps}
    \cup {-50000, -1, 1, 49999, 50001, 299999, 300001, 349999, 350001,
          549999, 550001, 649999, 650001, 749999, 750001, 949999, 950001,
          850000, 1049999, 1050001, 1249999, 1250001, 1549999, 1550001}

\* taxable incomes handed to _calculate_slab_tax
TaxableIncomes ==
    {k * IncomeStep : k \in 0..MaxIncomeSteps}
    \cup {1, 249999, 250001, 299999, 300001, 499999, 500001, 599999, 600001,
          899999, 900001, 999999, 1000001, 1199999, 1200001, 1499999, 1500001}

\* deductions maps: the empty dict, a dict of two sections, the all-zero dict of
\* calculate_deductions, dicts at and above the caps, and negative entries
DeductionMaps ==
    { <<>>,
      ("80C" :> 150000) @@ ("80D" :> 25000),
      [s \in DeductionSections |-> 0],
      ("80C" :> 150000) @@ ("80D" :> 25000) @@ ("80G" :> 12500),
      ("80C" :> 150000) @@ ("80D" :> 25000) @@ ("80G" :> 100000)
          @@ ("24b" :> 200000) @@ ("HRA" :> 120000),
      ("80C" :> -10000),
      ("80C" :> -1000000) }

MaxTransactions == 2

\* transactions handed to calculate_deductions: a tax-relevant debit below and
\* above the caps in every section, ones that must not count, and a reversal
DeductionTransactions ==
    {Txn("debit", "null", a, TRUE, sec) :
         a \in {30000, 210000}, sec \in DeductionSections \cup {"income"}}
    \cup { Txn("credit", "Salary", 210000, TRUE, "80C"),
           Txn("debit", "Shopping", 210000, FALSE, "80C"),
           Txn("debit", "Others", 210000, TRUE, "null"),
           Txn("debit", "null", -30000, TRUE, "80C") }

RECURSIVE ListsUpTo(_, _)
ListsUpTo(S, n) ==
    IF n = 0 THEN {<<>>}
    ELSE LET shorter == ListsUpTo(S, n - 1)
         IN  shorter \cup {Append(l, x) : l \in {m \in shorter : Len(m) = n - 1}, x \in S}

\* the additional_deductions of the request body
AdditionalDeductions ==
    { <<>>,
      ("80C" :> 150000) @@ ("80D" :> 25000) @@ ("80G" :> 12500),
      ("80C" :> 200000) @@ ("80E" :> 40000) }

SlabTables == {"old", "new"}
Slabs(regime) == IF regime = "old" THEN old_regime_slabs ELSE new_regime_slabs

(***************************************************************************)
(* The calls                                                               *)
(***************************************************************************)

NoArgs == [none |-> TRUE]

Init ==
    /\ op = "idle"
    /\ args = NoArgs
    /\ ret = NoArgs
    /\ tax_calculations = {}
    /\ cibil_scores = <<>>
    /\ transactions_table = <<>>

\* the response is handed back; the tables keep what the call committed
Return ==
    /\ op # "idle"
    /\ op' = "idle"
    /\ args' = NoArgs
    /\ ret' = NoArgs
    /\ UNCHANGED tables

CalculateSlabTax ==
    /\ op = "idle"
    /\ \E x \in TaxableIncomes, regime \in SlabTables :
          /\ args' = [taxable_income |-> x, regime |-> regime]
          /\ ret' = [total_tax |-> calculate_slab_tax(x, Slabs(regime))]
    /\ op' = "_calculate_slab_tax"
    /\ UNCHANGED tables

CalculateOldRegimeTax ==
    /\ op = "idle"
    /\ \E g \in Incomes, d \in DeductionMaps :
          /\ args' = [gross_income |-> g, deductions |-> d]
          /\ ret' = calculate_old_regime_tax(g, d)
    /\ op' = "calculate_old_regime_tax"
    /\ UNCHANGED tables

CalculateNewRegimeTax ==
    /\ op = "idle"
    /\ \E g \in Incomes :
          /\ args' = [gross_income |-> g]
          /\ ret' = calculate_new_regime_tax(g)
    /\ op' = "calculate_new_regime_tax"
    /\ UNCHANGED tables

CompareRegimes ==
    /\ op = "idle"
    /\ \E g \in Incomes, d \in DeductionMaps :
          /\ args' = [gross_income |-> g, deductions |-> d]
          /\ ret' = compare_regimes(g, d)
    /\ op' = "compare_regimes"
    /\ UNCHANGED tables

CalculateDeductions ==
    /\ op = "idle"
    /\ \E transactions \in ListsUpTo(DeductionTransactions, MaxTransactions),
          additional_deductions \in AdditionalDeductions :
          /\ args' = [transactions |-> transactions,
                      additional_deductions |-> additional_deductions]
          /\ ret' = calculate_deductions(transactions, additional_deductions)
    /\ op' = "calculate_deductions"
    /\ UNCHANGED tables

NextTax ==
    \/ CalculateSlabTax
    \/ CalculateDeductions
    \/ CalculateOldRegimeTax
    \/ CalculateNewRegimeTax
    \/ CompareRegimes
    \/ Return

SpecTax == Init /\ [][NextTax]_vars

(***************************************************************************)
(* The calculate_tax route                                                 *)
(***************************************************************************)

Users == {1}
UserIds == {1, 2}
FinancialYear == "2023-24"

\* what the transaction query of the route finds for the user and the year
RouteTransactions ==
    { <<>>,
      << Txn("credit", "Salary", 300000, TRUE, "income") >>,
      << Txn("credit", "Salary", 850000, TRUE, "income") >>,
      << Txn("credit", "Salary", 850000, TRUE, "income"),
         Txn("debit", "Food", 20000, FALSE, "null") >>,
      << Txn("credit", "Salary", 1200000, TRUE, "income"),
         Txn("debit", "SIP", 150000, TRUE, "80C"),
         Txn("debit", "Insurance", 25000, TRUE, "80D") >>,
      << Txn("credit", "Salary", 1200000, TRUE, "income"),
         Txn("credit", "Interest", 50000, FALSE, "null"),
         Txn("debit", "null", 5000, FALSE, "null") >> }

\* the body of calculate_tax after the user and the transactions were found:
\* "failed" is the ZeroDivisionError of the savings percentage, caught by the
\* handler's except clause
TaxCalculationData(transactions, additional_deductions) ==
    LET income_data == calculate_income(transactions)
        expense_data == categorize_expenses(transactions)
        deductions == calculate_deductions(transactions, additional_deductions)
        old_regime_tax == calculate_old_regime_tax(income_data.gross_income, deductions)
        new_regime_tax == calculate_new_regime_tax(income_data.gross_income)
        recommended_regime == Recommend(old_regime_tax.total_tax, new_regime_tax.total_tax)
        potential_savings == Abs(old_regime_tax.total_tax - new_regime_tax.total_tax)
        largest == Max(old_regime_tax.total_tax, new_regime_tax.total_tax)
    IN  [failed |-> largest = 0,
         income_breakdown |-> income_data,
         expense_breakdown |-> expense_data,
         deductions |-> deductions,
         old_regime |-> old_regime_tax,
         new_regime |-> new_regime_tax,
         comparison |->
             [recommended_regime |-> recommended_regime,
              potential_savings |-> potential_savings,
              savings_percentage |->
                  IF largest = 0 THEN [num |-> 0, den |-> 0]
                  ELSE [num |-> potential_savings, den |-> largest]]]

\* the TaxCalculation row written for a calculation
TaxCalculationRow(user_id, calc) ==
    [user_id |-> user_id,
     financial_year |-> FinancialYear,
     gross_income |-> calc.income_breakdown.gross_income,
     total_deductions |-> SumValues(calc.deductions),
     taxable_income |-> calc.income_breakdown.gross_income - SumValues(calc.deductions),
     old_regime_tax |-> calc.old_regime.total_tax,
     new_regime_tax |-> calc.new_regime.total_tax,
     recommended_regime |-> calc.comparison.recommended_regime,
     potential_savings |-> calc.comparison.potential_savings]

\* POST /calculate/<user_id>
CalculateTaxRoute ==
    /\ op = "idle"
    /\ op' = "calculate_tax"
    /\ \E user_id \in UserIds, transactions \in RouteTransactions,
          additional_deductions \in AdditionalDeductions :
          /\ args' = [user_id |-> user_id, transactions |-> transactions,
                      additional_deductions |-> additional_deductions]
          /\ IF user_id \notin Users
             THEN /\ ret' = [status |-> 404]
                  /\ UNCHANGED tables
             ELSE IF transactions = <<>>
             THEN /\ ret' = [status |-> 400]
                  /\ UNCHANGED tables
             ELSE LET calc == TaxCalculationData(transactions, additional_deductions)
                      existing == {r \in tax_calculations :
                                      /\ r.user_id = user_id
                                      /\ r.financial_year = FinancialYear}
                  IN  IF calc.failed
                      THEN /\ ret' = [status |-> 500]
                           /\ UNCHANGED tables
                      ELSE /\ ret' = [status |-> 200, calculation |-> calc]
                           /\ tax_calculations' =
                                  (tax_calculations \ existing)
                                      \cup {TaxCalculationRow(user_id, calc)}
                           /\ UNCHANGED <<cibil_scores, transactions_table>>

NextTaxRoute ==
    \/ CompareRegimes
    \/ CalculateTaxRoute
    \/ Return

SpecTaxRoute == Init /\ [][NextTaxRoute]_vars

(***************************************************************************)
(* CibilAnalyzer                                                           *)
(***************************************************************************)

\* score_weights, in percent (0.35 is 35)
score_weights ==
    [payment_history |-> 35,
     credit_utilization |-> 30,
     credit_mix |-> 15,
     new_credit |-> 10,
     length_of_history |-> 10]

base_score == 300
max_score == 900

\* mutant of _get_component_score: missing data scored as the worst grade
get_component_score_no_default(grade, component) ==
    CASE grade = "excellent" -> 95
      [] grade = "good" -> 80
      [] grade = "fair" -> 65
      [] grade = "poor" -> 45
      [] OTHER -> 0

\* grade_scores.get(grade, 50)
get_component_score(grade, component) ==
    CASE grade = "excellent" -> 95
      [] grade = "good" -> 80
      [] grade = "fair" -> 65
      [] grade = "poor" -> 45
      [] grade = "bad" -> 25
      [] grade = "no_data" -> 50
      [] OTHER -> 50

\* mutant of the weighted sum: the debt-to-income grade takes the place of
\* the account age
WeightedScore_debt_to_income(behavior_analysis) ==
    get_component_score(behavior_analysis.payment_consistency.score, "payment_history")
        * score_weights.payment_history
    + get_component_score(behavior_analysis.credit_utilization.score, "credit_utilization")
        * score_weights.credit_utilization
    + get_component_score(behavior_analysis.credit_diversity.score, "credit_mix")
        * score_weights.credit_mix
    + get_component_score(behavior_analysis.new_credit_inquiries.score, "new_credit")
        * score_weights.new_credit
    + get_component_score(behavior_analysis.debt_to_income.score, "length_of_history")
        * score_weights.length_of_history

\* total_score in hundredths: the component scores times the weights in percent
WeightedScore(behavior_analysis) ==
    get_component_score(behavior_analysis.payment_consistency.score, "payment_history")
        * score_weights.payment_history
    + get_component_score(behavior_analysis.credit_utilization.score, "credit_utilization")
        * score_weights.credit_utilization
    + get_component_score(behavior_analysis.credit_diversity.score, "credit_mix")
        * score_weights.credit_mix
    + get_component_score(behavior_analysis.new_credit_inquiries.score, "new_credit")
        * score_weights.new_credit
    + get_component_score(behavior_analysis.account_age.score, "length_of_history")
        * score_weights.length_of_history

\* int(base_score + total_score * (max_score - base_score) / 100), total_score
\* being WeightedScore / 100; the value is positive, so int() is the floor
PredictedScore(weighted) ==
    (base_score * 100 * 100 + weighted * (max_score - base_score)) \div (100 * 100)

predict_cibil_score(behavior_analysis) ==
    Min(max_score, Max(base_score, PredictedScore(WeightedScore(behavior_analysis))))

ScoreCap == 900
DefaultTimeline == 12

\* f"{timeline_months} months"
MonthsText(timeline_months) == ToString(timeline_months) \o " months"

\* mutant of the initial values: the timeline starts at 0 instead of 12 months
ScenarioStart_zero_timeline ==
    [score_impact |-> 0, timeline_months |-> 0, key_factors |-> <<>>]

ScenarioStart == [score_impact |-> 0, timeline_months |-> DefaultTimeline, key_factors |-> <<>>]

PayOffCreditCards(st, scenario_changes) ==
    IF "pay_off_credit_cards" \in scenario_changes
    THEN [score_impact |-> st.score_impact + 40,
          timeline_months |-> 3,
          key_factors |-> Append(st.key_factors, "Credit utilization improvement")]
    ELSE st

NeverMissPayments(st, scenario_changes) ==
    IF "never_miss_payments" \in scenario_changes
    THEN [score_impact |-> st.score_impact + 60,
          timeline_months |-> Max(st.timeline_months, 6),
          key_factors |-> Append(st.key_factors, "Perfect payment history")]
    ELSE st

AddCreditType(st, scenario_changes) ==
    IF "add_credit_type" \in scenario_changes
    THEN [score_impact |-> st.score_impact + 20,
          timeline_months |-> Max(st.timeline_months, 12),
          key_factors |-> Append(st.key_factors, "Improved credit mix")]
    ELSE st

NoNewApplications(st, scenario_changes) ==
    IF "no_new_applications" \in scenario_changes
    THEN [score_impact |-> st.score_impact + 15,
          timeline_months |-> Max(st.timeline_months, 6),
          key_factors |-> Append(st.key_factors, "Reduced credit inquiries")]
    ELSE st

\* scenario_changes is the collection the flags are looked up in (`in`)
simulate_scenario(current_score, scenario_changes) ==
    LET st == NoNewApplications(
                  AddCreditType(
                      NeverMissPayments(
                          PayOffCreditCards(ScenarioStart, scenario_changes),
                          scenario_changes),
                      scenario_changes),
                  scenario_changes)
    IN  [new_score |-> Min(ScoreCap, current_score + st.score_impact),
         score_change |-> st.score_impact,
         timeline |-> MonthsText(st.timeline_months),
         key_factors |-> st.key_factors]

\* the grades a factor analysis returns, and one that is not in grade_scores
Grades == {"excellent", "good", "fair", "poor", "bad", "no_data", "unknown"}

ScoredFactors ==
    {"payment_consistency", "credit_utilization", "credit_diversity",
     "new_credit_inquiries", "account_age"}

BehaviorProfiles == [ScoredFactors -> Grades]

\* the behavior_analysis dict of a profile: each factor analysis with its 'score'
BehaviorAnalysis(profile) ==
    [payment_consistency |-> [score |-> profile["payment_consistency"]],
     credit_utilization |-> [score |-> profile["credit_utilization"]],
     credit_diversity |-> [score |-> profile["credit_diversity"]],
     new_credit_inquiries |-> [score |-> profile["new_credit_inquiries"]],
     account_age |-> [score |-> profile["account_age"]]]

MaxScoreSteps == 26
ScoreStep == 25

\* current scores a caller supplies: the CIBIL range and beyond (nothing checks it)
Scores ==
    {300 + k * ScoreStep : k \in 0..MaxScoreSteps} \cup {750, 845, 861, 899, 901}

ScenarioFlags ==
    {"pay_off_credit_cards", "never_miss_payments", "add_credit_type",
     "no_new_applications", "close_old_accounts"}

\* the two factor analyses of analyze_financial_behavior that carry no weight
UnscoredAnalyses ==
    {[debt_to_income |-> [score |-> score],
      spending_patterns |-> [stability |-> stability]] :
        score \in {"excellent", "bad"}, stability \in {"excellent", "bad"}}

PredictCibilScore ==
    /\ op = "idle"
    /\ \E profile \in BehaviorProfiles, unscored \in UnscoredAnalyses :
          LET behavior_analysis == BehaviorAnalysis(profile) @@ unscored
          IN  /\ args' = [behavior_analysis |-> behavior_analysis]
              /\ ret' = [predicted_score |-> predict_cibil_score(behavior_analysis)]
    /\ op' = "predict_cibil_score"
    /\ UNCHANGED tables

SimulateScenario ==
    /\ op = "idle"
    /\ \E current_score \in Scores, scenario_changes \in SUBSET ScenarioFlags :
          /\ args' = [current_score |-> current_score,
                      scenario_changes |-> scenario_changes]
          /\ ret' = simulate_scenario(current_score, scenario_changes)
    /\ op' = "simulate_scenario"
    /\ UNCHANGED tables

NextCibil ==
    \/ PredictCibilScore
    \/ SimulateScenario
    \/ Return

SpecCibil == Init /\ [][NextCibil]_vars

(***************************************************************************)
(* TransactionCategorizer                                                  *)
(* Descriptions are strings; a regular expression of the rule table is the *)
(* sequence of its parts: literal text, "\\s*", "\\d+" or "\\w+".          *)
(***************************************************************************)

\* the rule table, in declaration order ("null": the key is absent)
category_patterns ==
    << [category |-> "Salary",
        keywords |-> <<"salary", "sal", "payroll", "wages", "income", "stipend">>,
        patterns |-> <<<<"sal", "\\s*", "\\d+">>, <<"salary", "\\s*", "credit">>,
                    <<"payroll">>>>,
        tax_relevant |-> TRUE, tax_section |-> "income",
        is_recurring |-> TRUE, frequency |-> "monthly"],
       [category |-> "EMI",
        keywords |-> <<"emi", "loan", "mortgage", "installment", "equated">>,
        patterns |-> <<<<"emi", "\\s*", "\\d+">>, <<"loan", "\\s*", "repayment">>,
                    <<"home", "\\s*", "loan">>, <<"car", "\\s*", "loan">>>>,
        tax_relevant |-> TRUE, tax_section |-> "24b",
        is_recurring |-> TRUE, frequency |-> "monthly"],
       [category |-> "SIP",
        keywords |-> <<"sip", "mutual fund", "systematic", "investment">>,
        patterns |-> <<<<"sip", "\\s*", "\\d+">>, <<"mf", "\\s*", "investment">>,
                    <<"systematic", "\\s*", "investment">>>>,
        tax_relevant |-> TRUE, tax_section |-> "80C",
        is_recurring |-> TRUE, frequency |-> "monthly"],
       [category |-> "Insurance",
        keywords |-> <<"insurance", "premium", "policy", "lic", "health insurance">>,
        patterns |-> <<<<"insurance", "\\s*", "premium">>, <<"policy", "\\s*",
                    "\\d+">>, <<"lic", "\\s*", "premium">>>>,
        tax_relevant |-> TRUE, tax_section |-> "80C",
        is_recurring |-> TRUE, frequency |-> "yearly"],
       [category |-> "Rent",
        keywords |-> <<"rent", "house rent", "apartment", "flat rent">>,
        patterns |-> <<<<"house", "\\s*", "rent">>, <<"flat", "\\s*", "rent">>,
                    <<"rent", "\\s*", "\\d+">>>>,
        tax_relevant |-> TRUE, tax_section |-> "HRA",
        is_recurring |-> TRUE, frequency |-> "monthly"],
       [category |-> "Utilities",
        keywords |-> <<"electricity", "water", "gas", "internet", "mobile", "phone">>,
        patterns |-> <<<<"electric", "\\s*", "bill">>, <<"water", "\\s*", "bill">>,
                    <<"gas", "\\s*", "bill">>, <<"mobile", "\\s*", "recharge">>>>,
        tax_relevant |-> FALSE, tax_section |-> "null",
        is_recurring |-> TRUE, frequency |-> "monthly"],
       [category |-> "Food",
        keywords |-> <<"food", "restaurant", "swiggy", "zomato", "grocery",
                    "supermarket">>,
        patterns |-> <<<<"swiggy">>, <<"zomato">>, <<"restaurant">>, <<"food", "\\s*",
                    "court">>>>,
        tax_relevant |-> FALSE, tax_section |-> "null",
        is_recurring |-> FALSE, frequency |-> "null"],
       [category |-> "Transportation",
        keywords |-> <<"uber", "ola", "taxi", "metro", "bus", "fuel", "petrol",
                    "diesel">>,
        patterns |-> <<<<"uber">>, <<"ola">>, <<"fuel", "\\s*", "station">>,
                    <<"petrol", "\\s*", "pump">>>>,
        tax_relevant |-> FALSE, tax_section |-> "null",
        is_recurring |-> FALSE, frequency |-> "null"],
       [category |-> "Medical",
        keywords |-> <<"hospital", "medical", "doctor", "pharmacy", "medicine",
                    "health">>,
        patterns |-> <<<<"hospital">>, <<"medical", "\\s*", "store">>, <<"pharmacy">>,
                    <<"dr", "\\s*", "\\w+">>>>,
        tax_relevant |-> TRUE, tax_section |-> "80D",
        is_recurring |-> FALSE, frequency |-> "null"],
       [category |-> "Education",
        keywords |-> <<"school", "college", "university", "tuition", "education",
                    "course">>,
        patterns |-> <<<<"school", "\\s*", "fee">>, <<"college", "\\s*", "fee">>,
                    <<"tuition">>, <<"education">>>>,
        tax_relevant |-> TRUE, tax_section |-> "80C",
        is_recurring |-> TRUE, frequency |-> "yearly"],
       [category |-> "Investment",
        keywords |-> <<"investment", "mutual fund", "stocks", "equity", "bond", "fd",
                    "fixed deposit">>,
        patterns |-> <<<<"mutual", "\\s*", "fund">>, <<"equity", "\\s*",
                    "investment">>, <<"fixed", "\\s*", "deposit">>>>,
        tax_relevant |-> TRUE, tax_section |-> "80C",
        is_recurring |-> FALSE, frequency |-> "null"],
       [category |-> "Shopping",
        keywords |-> <<"amazon", "flipkart", "shopping", "mall", "store", "market">>,
        patterns |-> <<<<"amazon">>, <<"flipkart">>, <<"shopping", "\\s*", "mall">>>>,
        tax_relevant |-> FALSE, tax_section |-> "null",
        is_recurring |-> FALSE, frequency |-> "null"],
       [category |-> "Entertainment",
        keywords |-> <<"movie", "cinema", "netflix", "prime", "spotify",
                    "entertainment">>,
        patterns |-> <<<<"movie", "\\s*", "ticket">>, <<"netflix">>, <<"amazon",
                    "\\s*", "prime">>, <<"spotify">>>>,
        tax_relevant |-> FALSE, tax_section |-> "null",
        is_recurring |-> FALSE, frequency |-> "null"],
       [category |-> "ATM",
        keywords |-> <<"atm", "cash withdrawal", "withdrawal">>,
        patterns |-> <<<<"atm", "\\s*", "withdrawal">>, <<"cash", "\\s*",
                    "withdrawal">>>>,
        tax_relevant |-> FALSE, tax_section |-> "null",
        is_recurring |-> FALSE, frequency |-> "null"],
       [category |-> "Transfer",
        keywords |-> <<"transfer", "neft", "imps", "rtgs", "upi">>,
        patterns |-> <<<<"neft">>, <<"imps">>, <<"rtgs">>, <<"upi">>, <<"transfer">>>>,
        tax_relevant |-> FALSE, tax_section |-> "null",
        is_recurring |-> FALSE, frequency |-> "null"] >>

UpperCase == "ABCDEFGHIJKLMNOPQRSTUVWXYZ"
LowerCase == "abcdefghijklmnopqrstuvwxyz"
Digits == "0123456789"

CharAt(s, i) == SubSeq(s, i, i)
IsIn(c, chars) == \E i \in 1..Len(chars) : CharAt(chars, i) = c
IndexIn(c, chars) == CHOOSE i \in 1..Len(chars) : CharAt(chars, i) = c

IsSpace(c) == c \in {" ", "\t"}
IsDigit(c) == IsIn(c, Digits)
IsWord(c) == IsIn(c, LowerCase) \/ IsIn(c, UpperCase) \/ IsIn(c, Digits) \/ c = "_"

LowerChar(c) == IF IsIn(c, UpperCase) THEN CharAt(LowerCase, IndexIn(c, UpperCase)) ELSE c
UpperChar(c) == IF IsIn(c, LowerCase) THEN CharAt(UpperCase, IndexIn(c, LowerCase)) ELSE c

\* str.lower()
RECURSIVE Lower(_)
Lower(s) == IF s = "" THEN "" ELSE LowerChar(Head(s)) \o Lower(Tail(s))

\* str.strip()
RECURSIVE StripLeft(_)
StripLeft(s) == IF s # "" /\ IsSpace(Head(s)) THEN StripLeft(Tail(s)) ELSE s
RECURSIVE StripRight(_)
StripRight(s) ==
    IF s # "" /\ IsSpace(CharAt(s, Len(s)))
    THEN StripRight(SubSeq(s, 1, Len(s) - 1))
    ELSE s
Strip(s) == StripRight(StripLeft(s))

\* str.title() of a one-word lower-case name
Title(s) == IF s = "" THEN "" ELSE UpperChar(Head(s)) \o Tail(s)

\* keyword in text
Contains(text, keyword) ==
    \E i \in 1..(Len(text) - Len(keyword) + 1) :
        SubSeq(text, i, i + Len(keyword) - 1) = keyword

\* any(term in text for term in terms)
ContainsAny(text, terms) == \E i \in 1..Len(terms) : Contains(text, terms[i])

\* the characters of text at positions from..to all satisfy the class
AllSpace(text, from, to) == \A i \in from..to : IsSpace(CharAt(text, i))
AllDigit(text, from, to) == \A i \in from..to : IsDigit(CharAt(text, i))
AllWord(text, from, to) == \A i \in from..to : IsWord(CharAt(text, i))

\* the parts of pattern from part k on match text at position pos
RECURSIVE MatchFrom(_, _, _, _)
MatchFrom(pattern, k, text, pos) ==
    IF k > Len(pattern) THEN TRUE
    ELSE LET part == pattern[k]
             rest == Len(text) - pos + 1
         IN  CASE part = "\\s*" ->
                     \E n \in 0..rest :
                         AllSpace(text, pos, pos + n - 1)
                             /\ MatchFrom(pattern, k + 1, text, pos + n)
               [] part = "\\d+" ->
                     \E n \in 1..rest :
                         AllDigit(text, pos, pos + n - 1)
                             /\ MatchFrom(pattern, k + 1, text, pos + n)
               [] part = "\\w+" ->
                     \E n \in 1..rest :
                         AllWord(text, pos, pos + n - 1)
                             /\ MatchFrom(pattern, k + 1, text, pos + n)
               [] OTHER ->
                     /\ Len(part) <= rest
                     /\ SubSeq(text, pos, pos + Len(part) - 1) = part
                     /\ MatchFrom(pattern, k + 1, text, pos + Len(part))

\* re.search(pattern, text)
Search(pattern, text) == \E pos \in 1..(Len(text) + 1) : MatchFrom(pattern, 1, text, pos)

\* mutant of the category test: the keywords must be whole words of the text
Matches_whole_word(config, description_lower) ==
    \/ \E i \in 1..Len(config.keywords) :
           Contains(" " \o description_lower \o " ", " " \o config.keywords[i] \o " ")
    \/ \E i \in 1..Len(config.patterns) : Search(config.patterns[i], description_lower)

\* a keyword is a substring of the description, or a pattern is found in it
Matches(config, description_lower) ==
    \/ ContainsAny(description_lower, config.keywords)
    \/ \E i \in 1..Len(config.patterns) : Search(config.patterns[i], description_lower)

\* _get_subcategory: the sub-category tables, in declaration order
subcategories ==
    [Food |-> << [name |-> "restaurant",
                  keywords |-> <<"restaurant", "hotel", "cafe", "food court">>],
                 [name |-> "delivery", keywords |-> <<"swiggy", "zomato", "delivery">>],
                 [name |-> "grocery",
                  keywords |-> <<"grocery", "supermarket", "mall", "store">>] >>,
     Transportation |->
              << [name |-> "cab", keywords |-> <<"uber", "ola", "taxi">>],
                 [name |-> "fuel", keywords |-> <<"petrol", "diesel", "fuel">>],
                 [name |-> "public", keywords |-> <<"metro", "bus", "auto">>] >>,
     Utilities |->
              << [name |-> "electricity", keywords |-> <<"electric", "power", "mseb">>],
                 [name |-> "water", keywords |-> <<"water", "municipal">>],
                 [name |-> "internet", keywords |-> <<"internet", "broadband", "wifi">>],
                 [name |-> "mobile",
                  keywords |-> <<"mobile", "phone", "airtel", "jio", "vi">>] >>,
     Shopping |->
              << [name |-> "online", keywords |-> <<"amazon", "flipkart", "myntra">>],
                 [name |-> "offline", keywords |-> <<"mall", "store", "market">>] >>]

get_subcategory(category, description) ==
    LET description_lower == Lower(description)
    IN  IF category \in DOMAIN subcategories
        THEN LET subs == subcategories[category]
                 hits == {i \in 1..Len(subs) : ContainsAny(description_lower, subs[i].keywords)}
             IN  IF hits = {} THEN category
                 ELSE Title(subs[CHOOSE i \in hits : \A j \in hits : i <= j].name)
        ELSE category

\* mutant of the Insurance special case: the health terms are not looked for
InsuranceSplit_life_only(description) ==
    [tax_section |-> "80C", subcategory |-> "Life Insurance"]

\* "Determine if it's life or health insurance"
InsuranceSplit(description) ==
    IF ContainsAny(Lower(description), <<"health", "medical", "mediclaim">>)
    THEN [tax_section |-> "80D", subcategory |-> "Health Insurance"]
    ELSE [tax_section |-> "80C", subcategory |-> "Life Insurance"]

\* the result is a dict: tax_section and frequency are keys only when set
build_category_result(category, config, description, amount) ==
    LET result ==
            [category |-> category,
             subcategory |-> get_subcategory(category, description),
             tax_relevant |-> config.tax_relevant,
             is_recurring |-> config.is_recurring]
            @@ (IF config.tax_section # "null"
                THEN [tax_section |-> config.tax_section] ELSE <<>>)
            @@ (IF config.frequency # "null"
                THEN [frequency |-> config.frequency] ELSE <<>>)
    IN  IF category = "Insurance"
        THEN InsuranceSplit(description) @@ result
        ELSE result

\* mutant of _categorize_by_amount: the two thresholds taken inclusively
categorize_by_amount_inclusive(description, amount) ==
    LET description_lower == Lower(description)
    IN  IF amount >= 50000
        THEN IF ContainsAny(description_lower, <<"transfer", "neft", "imps">>)
             THEN [category |-> "Investment", subcategory |-> "Large Transfer",
                   tax_relevant |-> FALSE, is_recurring |-> FALSE]
             ELSE [category |-> "Investment", subcategory |-> "Major Purchase",
                   tax_relevant |-> FALSE, is_recurring |-> FALSE]
        ELSE IF amount <= 1000
                 /\ ContainsAny(description_lower, <<"monthly", "subscription">>)
        THEN [category |-> "Entertainment", subcategory |-> "Subscription",
              tax_relevant |-> FALSE, is_recurring |-> TRUE, frequency |-> "monthly"]
        ELSE [category |-> "Others", subcategory |-> "Miscellaneous",
              tax_relevant |-> FALSE, is_recurring |-> FALSE]

categorize_by_amount(description, amount) ==
    LET description_lower == Lower(description)
    IN  IF amount > 50000
        THEN IF ContainsAny(description_lower, <<"transfer", "neft", "imps">>)
             THEN [category |-> "Investment", subcategory |-> "Large Transfer",
                   tax_relevant |-> FALSE, is_recurring |-> FALSE]
             ELSE [category |-> "Investment", subcategory |-> "Major Purchase",
                   tax_relevant |-> FALSE, is_recurring |-> FALSE]
        ELSE IF amount < 1000
                 /\ ContainsAny(description_lower, <<"monthly", "subscription">>)
        THEN [category |-> "Entertainment", subcategory |-> "Subscription",
              tax_relevant |-> FALSE, is_recurring |-> TRUE, frequency |-> "monthly"]
        ELSE [category |-> "Others", subcategory |-> "Miscellaneous",
              tax_relevant |-> FALSE, is_recurring |-> FALSE]

\* the positions of the rule table whose category matches the description
MatchingRules(description_lower) ==
    {i \in 1..Len(category_patterns) : Matches(category_patterns[i], description_lower)}

\* the number of keywords of a rule that the description contains
KeywordHits(config, description_lower) ==
    Cardinality({i \in 1..Len(config.keywords) :
                    Contains(description_lower, config.keywords[i])})

\* mutant of categorize_transaction: best match, the rule with the most keywords
\* in the description wins (the earliest of them on a tie)
categorize_transaction_best_match(description, amount) ==
    LET description_lower == Strip(Lower(description))
        hits == MatchingRules(description_lower)
        Better(i, j) ==
            LET ki == KeywordHits(category_patterns[i], description_lower)
                kj == KeywordHits(category_patterns[j], description_lower)
            IN  ki > kj \/ (ki = kj /\ i <= j)
    IN  IF hits # {}
        THEN LET best == CHOOSE i \in hits : \A j \in hits : Better(i, j)
             IN  build_category_result(category_patterns[best].category,
                                       category_patterns[best], description, amount)
        ELSE categorize_by_amount(description, amount)

\* mutant of the loop: it ends one rule early, the last rule is never tried
RECURSIVE FirstMatchingRule_skip_last(_, _)
FirstMatchingRule_skip_last(description_lower, i) ==
    IF i >= Len(category_patterns) THEN 0
    ELSE IF Matches(category_patterns[i], description_lower) THEN i
    ELSE FirstMatchingRule_skip_last(description_lower, i + 1)

\* the for loop of categorize_transaction: the first rule from rule i on, in
\* declaration order, that the description matches; 0 when the loop ends without
\* returning
RECURSIVE FirstMatchingRule(_, _)
FirstMatchingRule(description_lower, i) ==
    IF i > Len(category_patterns) THEN 0
    ELSE IF Matches(category_patterns[i], description_lower) THEN i
    ELSE FirstMatchingRule(description_lower, i + 1)

categorize_transaction(description, amount) ==
    LET description_lower == Strip(Lower(description))
        first == FirstMatchingRule(description_lower, 1)
    IN  IF first # 0
        THEN build_category_result(category_patterns[first].category,
                                   category_patterns[first], description, amount)
        ELSE categorize_by_amount(description, amount)

MaxWords == 2

\* the words descriptions are made of
Words ==
    {"LIC", "Premium", "insurance", "health", "policy", "salary", "dr",
     "transfer", "NEFT", "imps", "subscription", "monthly", "grocery"}

\* descriptions of up to n words, separated by a space
RECURSIVE DescriptionsUpTo(_)
DescriptionsUpTo(n) ==
    IF n = 0 THEN {""}
    ELSE LET shorter == DescriptionsUpTo(n - 1)
         IN  shorter \cup Words \cup {d \o " " \o w : d \in shorter \ {""}, w \in Words}

Descriptions == DescriptionsUpTo(MaxWords)

\* amounts below 1,000, at the two thresholds of the fallback, and above 50,000
Amounts == {500, 1000, 50000, 60000}

CategorizeTransaction ==
    /\ op = "idle"
    /\ \E description \in Descriptions, amount \in Amounts :
          /\ args' = [description |-> description, amount |-> amount]
          /\ ret' = categorize_transaction(description, amount)
    /\ op' = "categorize_transaction"
    /\ UNCHANGED tables

NextCategorizer ==
    \/ CategorizeTransaction
    \/ Return

SpecCategorizer == Init /\ [][NextCategorizer]_vars

(***************************************************************************)
(* CibilAnalyzer: the analysis of the financial behaviour                  *)
(* A float ratio is kept exactly as [num, den], den > 0: its value is      *)
(* num / den.  A date is [year, month, day].                               *)
(***************************************************************************)

Ratio(num, den) == [num |-> num, den |-> den]

\* ratio >= k and ratio <= k, for an integer k
AtLeast(ratio, k) == ratio.num >= k * ratio.den
AtMost(ratio, k) == ratio.num <= k * ratio.den

\* date.strftime('%Y-%m'): the year and the month
MonthKey(date) == <<date.year, date.month>>

\* the day count behind date subtraction (proleptic Gregorian calendar)
DayNumber(date) ==
    LET y == IF date.month <= 2 THEN date.year - 1 ELSE date.year
        era == y \div 400
        yoe == y - era * 400
        mp == (date.month + 9) % 12
        doy == (153 * mp + 2) \div 5 + date.day - 1
        doe == yoe * 365 + yoe \div 4 - yoe \div 100 + doy
    IN  era * 146097 + doe

\* the consistency is months_with_payments / total_months of the months that
\* have a payment
analyze_payment_consistency(transactions) ==
    LET emi_transactions ==
            {i \in 1..Len(transactions) :
                /\ transactions[i].category = "EMI"
                /\ transactions[i].transaction_type = "debit"}
    IN  IF emi_transactions = {}
        THEN [score |-> "no_data", consistency |-> Ratio(0, 1), missed_payments |-> 0]
        ELSE LET months == {MonthKey(transactions[i].date) : i \in emi_transactions}
                 monthly_payments ==
                     [k \in months |->
                         {i \in emi_transactions : MonthKey(transactions[i].date) = k}]
                 total_months == Cardinality(DOMAIN monthly_payments)
                 months_with_payments ==
                     Cardinality({k \in DOMAIN monthly_payments : monthly_payments[k] # {}})
                 consistency ==
                     IF total_months > 0
                     THEN Ratio(months_with_payments * 100, total_months)
                     ELSE Ratio(0, 1)
                 score ==
                     IF AtLeast(consistency, 95) THEN "excellent"
                     ELSE IF AtLeast(consistency, 85) THEN "good"
                     ELSE IF AtLeast(consistency, 70) THEN "fair"
                     ELSE IF AtLeast(consistency, 50) THEN "poor"
                     ELSE "bad"
             IN  [score |-> score,
                  consistency |-> consistency,
                  missed_payments |-> Max(0, total_months - months_with_payments),
                  total_months_analyzed |-> total_months]

IsCreditText(t) == Contains(Lower(t.description), "credit")

analyze_credit_utilization(transactions) ==
    LET credit_card_spends ==
            {i \in 1..Len(transactions) :
                IsCreditText(transactions[i]) /\ transactions[i].transaction_type = "debit"}
        credit_card_payments ==
            {i \in 1..Len(transactions) :
                IsCreditText(transactions[i]) /\ transactions[i].transaction_type = "credit"}
    IN  IF credit_card_spends = {}
        THEN [score |-> "no_data", estimated_utilization |-> Ratio(0, 1)]
        ELSE LET total_spend == SumAmounts(transactions, credit_card_spends)
                 total_payments == SumAmounts(transactions, credit_card_payments)
                 \* monthly_spend * 4, monthly_spend being total_spend / 12
                 estimated_credit_limit == Ratio(total_spend * 4, 12)
                 current_balance == Max(0, total_spend - total_payments)
                 utilization ==
                     IF estimated_credit_limit.num > 0
                     THEN Ratio(current_balance * 100 * estimated_credit_limit.den,
                                estimated_credit_limit.num)
                     ELSE Ratio(0, 1)
                 score ==
                     IF AtMost(utilization, 10) THEN "excellent"
                     ELSE IF AtMost(utilization, 30) THEN "good"
                     ELSE IF AtMost(utilization, 50) THEN "fair"
                     ELSE IF AtMost(utilization, 70) THEN "poor"
                     ELSE "bad"
             IN  [score |-> score,
                  estimated_utilization |->
                      IF AtMost(utilization, 100) THEN utilization ELSE Ratio(100, 1),
                  estimated_balance |-> current_balance,
                  estimated_limit |-> estimated_credit_limit]

\* the credit type a transaction adds to credit_types ("null": none)
CreditType(t) ==
    LET desc_lower == Lower(t.description)
    IN  IF ContainsAny(desc_lower, <<"emi", "loan", "mortgage">>)
        THEN IF Contains(desc_lower, "home") \/ Contains(desc_lower, "house")
             THEN "home_loan"
             ELSE IF Contains(desc_lower, "car") \/ Contains(desc_lower, "auto")
             THEN "auto_loan"
             ELSE "personal_loan"
        ELSE IF Contains(desc_lower, "credit") THEN "credit_card"
        ELSE "null"

\* credit_types is a set; the list made of it is kept as the set
analyze_credit_diversity(transactions) ==
    LET credit_types ==
            {CreditType(transactions[i]) : i \in 1..Len(transactions)} \ {"null"}
        diversity_count == Cardinality(credit_types)
        score ==
            IF diversity_count >= 4 THEN "excellent"
            ELSE IF diversity_count >= 3 THEN "good"
            ELSE IF diversity_count >= 2 THEN "fair"
            ELSE IF diversity_count >= 1 THEN "poor"
            ELSE "bad"
    IN  [score |-> score,
         credit_types |-> credit_types,
         diversity_count |-> diversity_count]

\* str.split(): the words between runs of whitespace
RECURSIVE SplitLoop(_, _, _)
SplitLoop(s, word, words) ==
    IF s = ""
    THEN IF word = "" THEN words ELSE Append(words, word)
    ELSE IF IsSpace(Head(s))
    THEN SplitLoop(Tail(s), "", IF word = "" THEN words ELSE Append(words, word))
    ELSE SplitLoop(Tail(s), word \o Head(s), words)

Split(s) == SplitLoop(s, "", <<>>)

\* the first word of the description that names an institution ("null": none)
PotentialInstitution(t) ==
    LET desc_words == Split(Lower(t.description))
        hits == {i \in 1..Len(desc_words) :
                    ContainsAny(desc_words[i], <<"bank", "card", "finance", "loan">>)}
    IN  IF hits = {} THEN "null"
        ELSE desc_words[CHOOSE i \in hits : \A j \in hits : i <= j]

\* the loop of _estimate_credit_inquiries from transaction i on: the institutions
\* in the order they are first seen
RECURSIVE InstitutionLoop(_, _, _)
InstitutionLoop(transactions, i, institutions) ==
    IF i > Len(transactions) THEN institutions
    ELSE LET potential_institution == PotentialInstitution(transactions[i])
         IN  IF /\ potential_institution # "null"
                /\ \A k \in 1..Len(institutions) : institutions[k] # potential_institution
             THEN InstitutionLoop(transactions, i + 1,
                                  Append(institutions, potential_institution))
             ELSE InstitutionLoop(transactions, i + 1, institutions)

estimate_credit_inquiries(transactions) ==
    LET institutions == InstitutionLoop(transactions, 1, <<>>)
        potential_new_accounts == Len(institutions)
        score ==
            IF potential_new_accounts = 0 THEN "excellent"
            ELSE IF potential_new_accounts <= 2 THEN "good"
            ELSE IF potential_new_accounts <= 4 THEN "fair"
            ELSE IF potential_new_accounts <= 6 THEN "poor"
            ELSE "bad"
    IN  [score |-> score,
         estimated_new_accounts |-> potential_new_accounts,
         institutions |-> institutions]

\* 30.44 days per month, times 100
DaysPerMonth100 == 3044

\* the account age of a list that is not empty
AccountAgeOf(transactions) ==
    LET dates == {DayNumber(transactions[i].date) : i \in 1..Len(transactions)}
        oldest_date == CHOOSE d \in dates : \A e \in dates : d <= e
        newest_date == CHOOSE d \in dates : \A e \in dates : d >= e
        data_span_days == newest_date - oldest_date
        estimated_age_months == Ratio(data_span_days * 100, DaysPerMonth100)
        score ==
            IF AtLeast(estimated_age_months, 60) THEN "excellent"
            ELSE IF AtLeast(estimated_age_months, 36) THEN "good"
            ELSE IF AtLeast(estimated_age_months, 24) THEN "fair"
            ELSE IF AtLeast(estimated_age_months, 12) THEN "poor"
            ELSE "bad"
    IN  [score |-> score,
         estimated_age_months |-> estimated_age_months,
         data_span_days |-> data_span_days]

\* mutant of _estimate_account_age: an empty list is graded as a span of 0 days
estimate_account_age_unguarded(transactions) ==
    IF transactions = <<>>
    THEN [score |-> "bad", estimated_age_months |-> Ratio(0, 1), data_span_days |-> 0]
    ELSE AccountAgeOf(transactions)

estimate_account_age(transactions) ==
    IF transactions = <<>>
    THEN [score |-> "no_data", estimated_age_months |-> Ratio(0, 1)]
    ELSE AccountAgeOf(transactions)

calculate_debt_to_income_ratio(transactions) ==
    LET salary == SumAmounts(transactions,
                      {i \in 1..Len(transactions) :
                          /\ transactions[i].transaction_type = "credit"
                          /\ transactions[i].category = "Salary"})
        emi == SumAmounts(transactions,
                      {i \in 1..Len(transactions) :
                          /\ transactions[i].transaction_type = "debit"
                          /\ transactions[i].category = "EMI"})
        monthly_income == Ratio(salary, 12)
        monthly_emi == Ratio(emi, 12)
    IN  IF monthly_income.num = 0
        THEN [ratio |-> Ratio(0, 1), score |-> "no_data"]
        ELSE LET dti_ratio == Ratio(monthly_emi.num * 100, monthly_income.num)
                 score ==
                     IF AtMost(dti_ratio, 20) THEN "excellent"
                     ELSE IF AtMost(dti_ratio, 36) THEN "good"
                     ELSE IF AtMost(dti_ratio, 50) THEN "fair"
                     ELSE IF AtMost(dti_ratio, 70) THEN "poor"
                     ELSE "bad"
             IN  [ratio |-> dti_ratio,
                  score |-> score,
                  monthly_income |-> monthly_income,
                  monthly_emi |-> monthly_emi]

\* the sum of n * x - total over the monthly amounts x, squared: n * n times the
\* sum of the squared deviations from the mean
RECURSIVE SquaredDeviations(_, _, _, _)
SquaredDeviations(monthly_spending, months, n, total) ==
    IF months = {} THEN 0
    ELSE LET k == CHOOSE x \in months : TRUE
             dev == n * monthly_spending[k] - total
         IN  dev * dev + SquaredDeviations(monthly_spending, months \ {k}, n, total)

RECURSIVE SumOver(_, _)
SumOver(f, keys) ==
    IF keys = {} THEN 0
    ELSE LET k == CHOOSE x \in keys : TRUE IN f[k] + SumOver(f, keys \ {k})

\* cv is 100 * stdev / mean, an irrational number in general; it is kept as
\* cv_squared_25 = cv * cv / 25 = 400 * SquaredDeviations / (total * total * (n - 1)),
\* and cv <= k is cv_squared_25 <= k * k / 25
analyze_spending_patterns(transactions) ==
    LET debit_transactions ==
            {i \in 1..Len(transactions) : transactions[i].transaction_type = "debit"}
        months == {MonthKey(transactions[i].date) : i \in debit_transactions}
        monthly_spending ==
            [k \in months |->
                SumAmounts(transactions,
                    {i \in debit_transactions : MonthKey(transactions[i].date) = k})]
        n == Cardinality(months)
        total == SumOver(monthly_spending, months)
    IN  IF debit_transactions = {} THEN [stability |-> "no_data"]
        ELSE IF n < 2 THEN [stability |-> "insufficient_data"]
        ELSE LET cv_squared_25 ==
                     IF total > 0
                     THEN Ratio(400 * SquaredDeviations(monthly_spending, months, n, total),
                                total * total * (n - 1))
                     ELSE Ratio(0, 1)
                 stability ==
                     IF AtMost(cv_squared_25, 9) THEN "excellent"
                     ELSE IF AtMost(cv_squared_25, 25) THEN "good"
                     ELSE IF AtMost(cv_squared_25, 64) THEN "fair"
                     ELSE IF AtMost(cv_squared_25, 144) THEN "poor"
                     ELSE "bad"
             IN  [stability |-> stability,
                  cv_squared_25 |-> cv_squared_25,
                  mean_monthly_spending |-> Ratio(total, n)]

analyze_financial_behavior(transactions) ==
    [payment_consistency |-> analyze_payment_consistency(transactions),
     credit_utilization |-> analyze_credit_utilization(transactions),
     credit_diversity |-> analyze_credit_diversity(transactions),
     new_credit_inquiries |-> estimate_credit_inquiries(transactions),
     account_age |-> estimate_account_age(transactions),
     debt_to_income |-> calculate_debt_to_income_ratio(transactions),
     spending_patterns |-> analyze_spending_patterns(transactions)]

\* a Transaction row: the columns the analyzer reads
BankTxn(type, category, description, date, amount) ==
    [transaction_type |-> type, category |-> category, description |-> description,
     date |-> date, amount |-> amount]

Date(year, month, day) == [year |-> year, month |-> month, day |-> day]

MaxBehaviorTransactions == 3

\* the transactions of a user: EMI payments in different months, salary, credit
\* card spends (one of amount 0) and payments, and an old purchase
BehaviorTransactions ==
    { BankTxn("debit", "EMI", "Home Loan EMI", Date(2023, 1, 5), 100),
      BankTxn("debit", "EMI", "car loan emi", Date(2023, 4, 5), 100),
      BankTxn("debit", "EMI", "personal loan emi icici bank", Date(2022, 1, 5), 50),
      BankTxn("credit", "Salary", "salary hdfc bank", Date(2023, 1, 1), 200),
      BankTxn("debit", "Shopping", "Credit card spend", Date(2023, 2, 10), 100),
      BankTxn("credit", "Others", "credit card payment", Date(2023, 2, 20), 85),
      BankTxn("debit", "Others", "credit card fee", Date(2023, 3, 1), 0),
      BankTxn("debit", "Food", "grocery", Date(2018, 1, 1), 200) }

AnalyzeFinancialBehavior ==
    /\ op = "idle"
    /\ \E transactions \in ListsUpTo(BehaviorTransactions, MaxBehaviorTransactions) :
          /\ args' = [transactions |-> transactions]
          /\ ret' = analyze_financial_behavior(transactions)
    /\ op' = "analyze_financial_behavior"
    /\ UNCHANGED tables

NextBehavior ==
    \/ AnalyzeFinancialBehavior
    \/ Return

SpecBehavior == Init /\ [][NextBehavior]_vars

(***************************************************************************)
(* CibilAnalyzer: recommendations and improvement timeline                 *)
(***************************************************************************)

\* the static recommendation blocks
PaymentHistoryBlock ==
    [category |-> "Payment History",
     priority |-> "High",
     recommendation |-> "Set up automatic payments for all EMIs and credit card bills",
     impact |-> "Can improve score by 50-100 points over 6-12 months",
     timeline |-> "6-12 months",
     specific_actions |->
         <<"Enable auto-debit for EMI payments",
           "Set up credit card autopay for full amount",
           "Pay any overdue amounts immediately",
           "Set payment reminders 3 days before due dates">>]

CreditUtilizationBlock ==
    [category |-> "Credit Utilization",
     priority |-> "High",
     recommendation |-> "Reduce credit card utilization below 30%",
     impact |-> "Can improve score by 30-80 points over 3-6 months",
     timeline |-> "3-6 months",
     specific_actions |->
         <<"Pay down existing credit card balances",
           "Request credit limit increases",
           "Split balances across multiple cards",
           "Pay twice monthly to keep balances low">>]

CreditMixBlock ==
    [category |-> "Credit Mix",
     priority |-> "Medium",
     recommendation |-> "Diversify your credit portfolio responsibly",
     impact |-> "Can improve score by 20-40 points over 12-24 months",
     timeline |-> "12-24 months",
     specific_actions |->
         <<"Consider a secured credit card if new to credit",
           "Add an installment loan if you only have credit cards",
           "Maintain different types of credit accounts",
           "Avoid opening too many accounts at once">>]

NewCreditBlock ==
    [category |-> "New Credit",
     priority |-> "Medium",
     recommendation |-> "Limit new credit applications",
     impact |-> "Can improve score by 10-25 points over 6-12 months",
     timeline |-> "6-12 months",
     specific_actions |->
         <<"Avoid applying for new credit for 6-12 months",
           "Research thoroughly before applying",
           "Space applications 6+ months apart",
           "Only apply for credit you actually need">>]

\* behavior_analysis.get(factor, {}).get('score'): "null" when there is none
ScoreOf(behavior_analysis, factor) ==
    IF factor \in DOMAIN behavior_analysis /\ "score" \in DOMAIN behavior_analysis[factor]
    THEN behavior_analysis[factor].score
    ELSE "null"

\* the grades that bring a block: ['poor', 'bad']
LowGrades == {"poor", "bad"}

\* mutant of the grades of the utilization block: 'fair' left out
UtilizationGrades_no_fair == {"poor", "bad"}

\* the grades that bring the utilization block: ['poor', 'bad', 'fair']
UtilizationGrades == {"poor", "bad", "fair"}

\* recommendations.append(block) if the grade of the factor is one of grades
AppendIf(recommendations, behavior_analysis, factor, grades, block) ==
    IF ScoreOf(behavior_analysis, factor) \in grades
    THEN Append(recommendations, block)
    ELSE recommendations

generate_recommendations(behavior_analysis, current_score) ==
    AppendIf(
        AppendIf(
            AppendIf(
                AppendIf(<<>>, behavior_analysis, "payment_consistency", LowGrades,
                         PaymentHistoryBlock),
                behavior_analysis, "credit_utilization", UtilizationGrades,
                CreditUtilizationBlock),
            behavior_analysis, "credit_diversity", LowGrades, CreditMixBlock),
        behavior_analysis, "new_credit_inquiries", LowGrades, NewCreditBlock)

\* the checkpoints of the timeline, in months
Checkpoints == <<3, 6, 9, 12, 18, 24>>

\* mutant of the loop body: a recommendation counts only at its first checkpoint
ImprovementsOf_once(month, rec) ==
    (IF month = 3 /\ rec.category = "Credit Utilization"
     THEN << [text |-> "Credit utilization improvements visible", increase |-> 15] >>
     ELSE <<>>)
    \o (IF month = 6 /\ rec.category = "Payment History"
        THEN << [text |-> "Payment history improvements visible", increase |-> 20] >>
        ELSE <<>>)
    \o (IF month = 12 /\ rec.category = "New Credit"
        THEN << [text |-> "Reduced inquiry impact", increase |-> 10] >>
        ELSE <<>>)
    \o (IF month = 18 /\ rec.category = "Credit Mix"
        THEN << [text |-> "Credit mix benefits visible", increase |-> 15] >>
        ELSE <<>>)

\* what one recommendation adds at a checkpoint (the four ifs of the loop body)
ImprovementsOf(month, rec) ==
    (IF month >= 3 /\ rec.category = "Credit Utilization"
     THEN << [text |-> "Credit utilization improvements visible", increase |-> 15] >>
     ELSE <<>>)
    \o (IF month >= 6 /\ rec.category = "Payment History"
        THEN << [text |-> "Payment history improvements visible", increase |-> 20] >>
        ELSE <<>>)
    \o (IF month >= 12 /\ rec.category = "New Credit"
        THEN << [text |-> "Reduced inquiry impact", increase |-> 10] >>
        ELSE <<>>)
    \o (IF month >= 18 /\ rec.category = "Credit Mix"
        THEN << [text |-> "Credit mix benefits visible", increase |-> 15] >>
        ELSE <<>>)

\* the loop over the recommendations at a checkpoint, from recommendation i on
RECURSIVE MonthImprovements(_, _, _)
MonthImprovements(month, recommendations, i) ==
    IF i > Len(recommendations) THEN <<>>
    ELSE ImprovementsOf(month, recommendations[i])
             \o MonthImprovements(month, recommendations, i + 1)

RECURSIVE SumIncrease(_)
SumIncrease(improvements) ==
    IF improvements = <<>> THEN 0
    ELSE Head(improvements).increase + SumIncrease(Tail(improvements))

\* mutant of the test before a milestone is appended: every checkpoint is reported
HasImprovements_always(month_improvements) == TRUE

\* if month_improvements:
HasImprovements(month_improvements) == month_improvements # <<>>

\* the loop over the checkpoints, from checkpoint k on
RECURSIVE TimelineLoop(_, _, _, _)
TimelineLoop(recommendations, k, projected_score, timeline) ==
    IF k > Len(Checkpoints) THEN timeline
    ELSE LET month == Checkpoints[k]
             month_improvements == MonthImprovements(month, recommendations, 1)
             score_increase == SumIncrease(month_improvements)
             new_score == Min(ScoreCap, projected_score + score_increase)
         IN  IF HasImprovements(month_improvements)
             THEN TimelineLoop(recommendations, k + 1, new_score,
                      Append(timeline,
                             [month |-> month,
                              projected_score |-> new_score,
                              improvements |->
                                  [i \in 1..Len(month_improvements) |->
                                      month_improvements[i].text],
                              score_increase |-> score_increase]))
             ELSE TimelineLoop(recommendations, k + 1, projected_score, timeline)

create_improvement_timeline(behavior_analysis, current_score, recommendations) ==
    TimelineLoop(recommendations, 1, current_score, <<>>)

\* the profiles the timeline is made for: no block, the utilization block only,
\* every block
TimelineGrades == {"good", "fair", "poor"}
TimelineProfiles == [ScoredFactors -> TimelineGrades]

GenerateRecommendations ==
    /\ op = "idle"
    /\ \E profile \in BehaviorProfiles, current_score \in {base_score, max_score} :
          /\ args' = [behavior_analysis |-> BehaviorAnalysis(profile),
                      current_score |-> current_score]
          /\ ret' = [recommendations |->
                        generate_recommendations(BehaviorAnalysis(profile), current_score)]
    /\ op' = "generate_recommendations"
    /\ UNCHANGED tables

\* the timeline of the recommendations made for a profile, as the analysis makes it
CreateImprovementTimeline ==
    /\ op = "idle"
    /\ \E profile \in TimelineProfiles, current_score \in Scores :
          LET behavior_analysis == BehaviorAnalysis(profile)
              recommendations == generate_recommendations(behavior_analysis, current_score)
          IN  /\ args' = [current_score |-> current_score,
                          recommendations |-> recommendations]
              /\ ret' = [timeline |->
                            create_improvement_timeline(behavior_analysis, current_score,
                                                        recommendations)]
    /\ op' = "create_improvement_timeline"
    /\ UNCHANGED tables

NextAdvice ==
    \/ GenerateRecommendations
    \/ CreateImprovementTimeline
    \/ Return

SpecAdvice == Init /\ [][NextAdvice]_vars

(***************************************************************************)
(* The CIBIL routes: analyze, simulate, history and recommendations        *)
(* A request body is a record of the keys it holds; a CibilScore row is a  *)
(* record whose current_score field is absent when the column is NULL.     *)
(* The id of a row is its position in cibil_scores.                        *)
(***************************************************************************)

MaxAnalyses == 2

\* what the query of the last twelve months of transactions finds for the user
CibilRouteTransactions ==
    { <<>>,
      << BankTxn("debit", "EMI", "Home Loan EMI", Date(2023, 1, 5), 100),
         BankTxn("credit", "Salary", "salary hdfc bank", Date(2023, 1, 1), 200) >>,
      << BankTxn("debit", "Shopping", "Credit card spend", Date(2023, 2, 10), 100),
         BankTxn("credit", "Others", "credit card payment", Date(2023, 2, 20), 85) >> }

\* request bodies of analyze and simulate: without a current_score, and with one
\* that is 0, below, inside and above the CIBIL range
ScoreBodies ==
    {<<>>} \cup {[current_score |-> s] : s \in {0, 250, 750, 1000}}

\* data.get('current_score') is None or 0
NoCurrentScore(data) == "current_score" \notin DOMAIN data \/ data.current_score = 0

\* the CibilScore row of an analysis
CibilScoreRow(user_id, data, behavior_analysis) ==
    LET predicted_score ==
            IF NoCurrentScore(data) THEN predict_cibil_score(behavior_analysis)
            ELSE data.current_score
        recommendations == generate_recommendations(behavior_analysis, predicted_score)
    IN  [user_id |-> user_id,
         predicted_score |-> predicted_score,
         score_factors |->
             [payment_history |-> behavior_analysis.payment_consistency,
              credit_utilization |-> behavior_analysis.credit_utilization,
              credit_mix |-> behavior_analysis.credit_diversity,
              new_credit |-> behavior_analysis.new_credit_inquiries,
              length_of_history |-> behavior_analysis.account_age],
         recommendations |-> recommendations,
         improvement_timeline |->
             create_improvement_timeline(behavior_analysis, predicted_score,
                                         recommendations)]
        @@ (IF "current_score" \in DOMAIN data
            THEN [current_score |-> data.current_score]
            ELSE <<>>)

\* mutant of the save: the latest analysis (the query of existing_analysis) is
\* overwritten
SaveAnalysis_replace_latest(rows, cibil_analysis) ==
    IF rows = <<>> THEN <<cibil_analysis>>
    ELSE [rows EXCEPT ![Len(rows)] = cibil_analysis]

\* db.session.add(cibil_analysis) and the commit: a new row
SaveAnalysis(rows, cibil_analysis) == Append(rows, cibil_analysis)

\* POST /analyze/<user_id>; the improvement_factors, which are only returned, are
\* left out of the response; committed is whether db.session.commit() succeeded
AnalyzeCibilScore ==
    /\ op = "idle"
    /\ op' = "analyze_cibil_score"
    /\ \E user_id \in UserIds, data \in ScoreBodies,
          transactions \in CibilRouteTransactions, committed \in BOOLEAN :
          /\ args' = [user_id |-> user_id, data |-> data,
                      transactions |-> transactions]
          /\ IF user_id \notin Users
             THEN /\ ret' = [status |-> 404]
                  /\ UNCHANGED tables
             ELSE IF transactions = <<>>
             THEN /\ ret' = [status |-> 400]
                  /\ UNCHANGED tables
             ELSE IF ~committed
             THEN /\ ret' = [status |-> 500]
                  /\ UNCHANGED tables
             ELSE LET cibil_analysis ==
                          CibilScoreRow(user_id, data,
                                        analyze_financial_behavior(transactions))
                  IN  /\ Len(cibil_scores) < MaxAnalyses
                      /\ ret' = [status |-> 200, analysis |-> cibil_analysis]
                      /\ cibil_scores' = SaveAnalysis(cibil_scores, cibil_analysis)
                      /\ UNCHANGED <<tax_calculations, transactions_table>>

\* the scenarios of a simulate request
Scenarios ==
    { <<>>,
      << [name |-> "cards", changes |-> {"pay_off_credit_cards"}] >>,
      << [name |-> "payments", changes |-> {"never_miss_payments"}],
         [name |-> "both", changes |-> {"never_miss_payments", "no_new_applications"}] >> }

\* the loop of simulate_score_improvement over the scenarios
SimulationResults(current_score, scenarios) ==
    [i \in 1..Len(scenarios) |->
        LET simulated_score == simulate_scenario(current_score, scenarios[i].changes)
        IN  [scenario |-> scenarios[i].name,
             changes |-> scenarios[i].changes,
             current_score |-> current_score,
             projected_score |-> simulated_score.new_score,
             score_change |-> simulated_score.score_change,
             timeline |-> simulated_score.timeline,
             key_factors |-> simulated_score.key_factors]]

\* max(simulation_results, key=projected_score): the first of the largest
get_simulation_recommendations(simulation_results) ==
    LET best == CHOOSE i \in 1..Len(simulation_results) :
                    /\ \A j \in 1..Len(simulation_results) :
                           simulation_results[j].projected_score
                               <= simulation_results[i].projected_score
                    /\ \A j \in 1..(i - 1) :
                           simulation_results[j].projected_score
                               < simulation_results[i].projected_score
        best_scenario == simulation_results[best]
    IN  [best_scenario |-> best_scenario.scenario,
         max_improvement |-> best_scenario.score_change,
         timeline |-> best_scenario.timeline]

\* POST /simulate/<user_id>; max() of no results raises, which the handler turns
\* into a 500
SimulateScoreImprovement ==
    /\ op = "idle"
    /\ op' = "simulate_score_improvement"
    /\ \E user_id \in UserIds, data \in ScoreBodies, scenarios \in Scenarios :
          /\ args' = [user_id |-> user_id, data |-> data, scenarios |-> scenarios]
          /\ ret' =
                 IF user_id \notin Users THEN [status |-> 404]
                 ELSE IF NoCurrentScore(data) THEN [status |-> 400]
                 ELSE IF scenarios = <<>> THEN [status |-> 500]
                 ELSE LET simulation_results ==
                              SimulationResults(data.current_score, scenarios)
                      IN  [status |-> 200,
                           simulations |-> simulation_results,
                           recommendations |->
                               get_simulation_recommendations(simulation_results)]
    /\ UNCHANGED tables

\* the history entry of a row
HistoryEntry(id) ==
    LET analysis == cibil_scores[id]
    IN  [id |-> id,
         predicted_score |-> analysis.predicted_score,
         score_factors |-> analysis.score_factors,
         improvement_summary |->
             [total_recommendations |-> Len(analysis.recommendations),
              timeline_months |-> Len(analysis.improvement_timeline)]]
        @@ (IF "current_score" \in DOMAIN analysis
            THEN [current_score |-> analysis.current_score]
            ELSE <<>>)

\* the rows of the user, the latest first
RECURSIVE HistoryLoop(_, _, _)
HistoryLoop(user_id, id, history) ==
    IF id = 0 THEN history
    ELSE HistoryLoop(user_id, id - 1,
             IF cibil_scores[id].user_id = user_id
             THEN Append(history, HistoryEntry(id))
             ELSE history)

\* GET /history/<user_id>
GetCibilHistory ==
    /\ op = "idle"
    /\ op' = "get_cibil_history"
    /\ \E user_id \in UserIds :
          /\ args' = [user_id |-> user_id]
          /\ ret' =
                 IF user_id \notin Users THEN [status |-> 404]
                 ELSE [status |-> 200,
                       cibil_history |-> HistoryLoop(user_id, Len(cibil_scores), <<>>)]
    /\ UNCHANGED tables

\* GET /recommendations/<analysis_id>: get_detailed_recommendations compares
\* every score factor, a dict, with 70, which raises TypeError; the handler turns
\* it into a 500
GetDetailedRecommendations ==
    /\ op = "idle"
    /\ op' = "get_detailed_recommendations"
    /\ \E analysis_id \in 1..(MaxAnalyses + 1) :
          /\ args' = [analysis_id |-> analysis_id]
          /\ ret' =
                 IF analysis_id \notin 1..Len(cibil_scores) THEN [status |-> 404]
                 ELSE [status |-> 500]
    /\ UNCHANGED tables

NextCibilRoute ==
    \/ AnalyzeCibilScore
    \/ SimulateScoreImprovement
    \/ GetCibilHistory
    \/ GetDetailedRecommendations
    \/ Return

SpecCibilRoute == Init /\ [][NextCibilRoute]_vars

(***************************************************************************)
(* Data ingestion: the stored transactions and the manual override         *)
(* The id of a Transaction row is its position in transactions_table.      *)
(***************************************************************************)

MaxStoredTransactions == 2

\* the transactions FileProcessor reads from the files the user uploads, one
\* transaction a file, in the order of the uploads (the last over again once
\* the list is used up)
UploadedTransactions ==
    << [date |-> Date(2023, 1, 5), description |-> "LIC Premium", amount |-> 5000,
        type |-> "debit"],
       [date |-> Date(2023, 2, 1), description |-> "monthly xyz", amount |-> 500,
        type |-> "debit"],
       [date |-> Date(2023, 2, 28), description |-> "salary", amount |-> 60000,
        type |-> "credit"] >>

\* Transaction(...) of upload_file: the row of a transaction and its category
TransactionRow(transaction_data) ==
    LET category_info == categorize_transaction(transaction_data.description,
                                                transaction_data.amount)
    IN  [date |-> transaction_data.date,
         description |-> transaction_data.description,
         amount |-> transaction_data.amount,
         transaction_type |-> transaction_data.type,
         category |-> category_info.category,
         subcategory |-> category_info.subcategory,
         is_recurring |-> category_info.is_recurring,
         recurring_frequency |->
             IF "frequency" \in DOMAIN category_info
             THEN category_info.frequency ELSE "null",
         tax_relevant |-> category_info.tax_relevant,
         tax_section |->
             IF "tax_section" \in DOMAIN category_info
             THEN category_info.tax_section ELSE "null"]

\* POST /upload of a file with one transaction, for a known user: the file is
\* processed and its transaction stored with the category found for it
UploadFile ==
    /\ op = "idle"
    /\ Len(transactions_table) < MaxStoredTransactions
    /\ op' = "upload_file"
    /\ LET transaction_data ==
               UploadedTransactions[Min(Len(transactions_table) + 1,
                                        Len(UploadedTransactions))]
       IN /\ args' = [transactions |-> <<transaction_data>>]
          /\ ret' = [status |-> 200, transactions_processed |-> 1]
          /\ transactions_table' =
                 Append(transactions_table, TransactionRow(transaction_data))
    /\ UNCHANGED <<tax_calculations, cibil_scores>>

\* the columns a manual override may set
OverrideFields == {"category", "subcategory", "tax_relevant", "tax_section"}

\* the JSON bodies of an override: every subset of the four keys
OverrideBodies ==
    LET full == [category |-> "Food", subcategory |-> "grocery",
                 tax_relevant |-> FALSE, tax_section |-> "80D"]
    IN  {[f \in keys |-> full[f]] : keys \in SUBSET OverrideFields}

\* mutant of the update: a key that is absent from the body clears the column
UpdateFields_clear_absent(transaction, data) ==
    [f \in DOMAIN transaction |->
        IF f \in OverrideFields
        THEN (IF f \in DOMAIN data THEN data[f] ELSE "null")
        ELSE transaction[f]]

\* "Update transaction fields": the four `if key in data` assignments
UpdateFields(transaction, data) ==
    [f \in DOMAIN transaction |->
        IF f \in OverrideFields /\ f \in DOMAIN data THEN data[f]
        ELSE transaction[f]]

\* PUT /transactions/<transaction_id>/categorize; failed is an exception (no
\* JSON body, a failing commit), after which the session is rolled back
UpdateTransactionCategory ==
    /\ op = "idle"
    /\ op' = "update_transaction_category"
    /\ \E transaction_id \in 1..(MaxStoredTransactions + 1),
          data \in OverrideBodies, failed \in BOOLEAN :
          /\ args' = [transaction_id |-> transaction_id, data |-> data]
          /\ IF transaction_id \notin 1..Len(transactions_table)
             THEN /\ ret' = [status |-> 404]
                  /\ UNCHANGED tables
             ELSE IF failed
             THEN /\ ret' = [status |-> 500]
                  /\ UNCHANGED tables
             ELSE /\ ret' = [status |-> 200]
                  /\ transactions_table' =
                         [transactions_table EXCEPT
                             ![transaction_id] = UpdateFields(@, data)]
                  /\ UNCHANGED <<tax_calculations, cibil_scores>>

NextIngestion ==
    \/ UploadFile
    \/ UpdateTransactionCategory
    \/ Return

SpecIngestion == Init /\ [][NextIngestion]_vars

(***************************************************************************)
(* TaxOptimizer: the summary and the deduction opportunities               *)
(* current_deductions is a dict: a sequence of [section, amount] items in  *)
(* insertion order, with distinct sections.  Amounts are whole rupees; a   *)
(* float product or quotient is kept exactly as a Ratio.                   *)
(***************************************************************************)

\* optimization_strategies: the limit of every section (the options, fixed
\* texts, are left out); the limit of HRA is the string 'Variable', for which
\* isinstance(limit, int) is false
optimization_strategies ==
    ("80C" :> [limit |-> 150000, is_int |-> TRUE])
        @@ ("80D" :> [limit |-> 25000, is_int |-> TRUE])
        @@ ("80G" :> [limit |-> 100000, is_int |-> TRUE])
        @@ ("24b" :> [limit |-> 200000, is_int |-> TRUE])
        @@ ("HRA" :> [limit |-> 0, is_int |-> FALSE])

\* sum(current_deductions.values())
RECURSIVE SumItems(_, _)
SumItems(current_deductions, i) ==
    IF i > Len(current_deductions) THEN 0
    ELSE current_deductions[i].amount + SumItems(current_deductions, i + 1)

\* 150000 + 25000 + 200000 + 100000
max_possible_deductions == 475000

\* _get_marginal_tax_rate, in percent
get_marginal_tax_rate(gross_income) ==
    IF gross_income <= 300000 THEN 0
    ELSE IF gross_income <= 600000 THEN 5
    ELSE IF gross_income <= 900000 THEN 10
    ELSE IF gross_income <= 1200000 THEN 15
    ELSE IF gross_income <= 1500000 THEN 20
    ELSE 30

get_optimization_summary(gross_income, current_deductions) ==
    LET total_current_deductions == SumItems(current_deductions, 1)
        potential_additional_deductions ==
            max_possible_deductions - total_current_deductions
        marginal_rate == get_marginal_tax_rate(gross_income)
    IN  [current_deductions |-> total_current_deductions,
         max_possible_deductions |-> max_possible_deductions,
         optimization_potential |-> potential_additional_deductions,
         estimated_tax_savings |->
             Ratio(potential_additional_deductions * marginal_rate, 100),
         optimization_percentage |->
             Ratio(potential_additional_deductions * 100, max_possible_deductions)]

\* the loop of _identify_deduction_opportunities over current_deductions.items()
RECURSIVE OpportunityLoop(_, _, _)
OpportunityLoop(current_deductions, i, opportunities) ==
    IF i > Len(current_deductions) THEN opportunities
    ELSE LET section == current_deductions[i].section
             current_amount == current_deductions[i].amount
             listed ==
                 /\ section \in DOMAIN optimization_strategies
                 /\ optimization_strategies[section].is_int
                 /\ current_amount < optimization_strategies[section].limit
         IN  OpportunityLoop(current_deductions, i + 1,
                 IF listed
                 THEN LET limit == optimization_strategies[section].limit
                      IN  Append(opportunities,
                              [section |-> section,
                               current_utilization |-> current_amount,
                               limit |-> limit,
                               remaining_opportunity |-> limit - current_amount,
                               utilization_percentage |->
                                   Ratio(current_amount * 100, limit)])
                 ELSE opportunities)

identify_deduction_opportunities(current_deductions) ==
    OpportunityLoop(current_deductions, 1, <<>>)

\* the items of a deductions dict of calculate_deductions, in the order its keys
\* were inserted
DeductionOrder == <<"80C", "80D", "80G", "24b", "HRA">>
Items(deductions) ==
    [i \in 1..Len(DeductionOrder) |->
        [section |-> DeductionOrder[i], amount |-> deductions[DeductionOrder[i]]]]

MaxSections == 2

\* the items a caller may hand over: a section with an amount below, at or above
\* its limit, and 'total', a key the optimizer has no strategy for
OptimizerItems ==
    {[section |-> s, amount |-> a] :
        s \in {"80C", "80D", "24b", "HRA", "total"}, a \in {0, 20000, 200000}}

\* current_deductions: the dicts calculate_deductions returns, which is what the
\* optimize route passes, and short dicts in every insertion order
CurrentDeductions ==
    {Items(calculate_deductions(transactions, additional_deductions)) :
        transactions \in ListsUpTo(DeductionTransactions, MaxTransactions),
        additional_deductions \in AdditionalDeductions}
    \cup {d \in ListsUpTo(OptimizerItems, MaxSections) :
            \A i, j \in 1..Len(d) : i # j => d[i].section # d[j].section}

\* gross incomes at and just above every threshold of the rate table
OptimizerIncomes ==
    {0, 300000, 300001, 600000, 600001, 900000, 900001,
     1200000, 1200001, 1500000, 1500001}

GetOptimizationSummary ==
    /\ op = "idle"
    /\ \E gross_income \in OptimizerIncomes, current_deductions \in CurrentDeductions :
          /\ args' = [gross_income |-> gross_income,
                      current_deductions |-> current_deductions]
          /\ ret' = get_optimization_summary(gross_income, current_deductions)
    /\ op' = "_get_optimization_summary"
    /\ UNCHANGED tables

IdentifyDeductionOpportunities ==
    /\ op = "idle"
    /\ \E current_deductions \in CurrentDeductions :
          /\ args' = [current_deductions |-> current_deductions]
          /\ ret' = [opportunities |-> identify_deduction_opportunities(current_deductions)]
    /\ op' = "_identify_deduction_opportunities"
    /\ UNCHANGED tables

NextOptimizer ==
    \/ GetOptimizationSummary
    \/ IdentifyDeductionOpportunities
    \/ Return

SpecOptimizer == Init /\ [][NextOptimizer]_vars

(***************************************************************************)
(* Properties                                                              *)
(***************************************************************************)

Rupees(n) == n * Scale

NonNegative(r) == r.taxable_income >= 0 /\ r.income_tax >= 0 /\ r.total_tax >= 0

\* C1: for a gross income >= 0 and any deductions map, both regimes return a
\* taxable income, an income tax and a total tax that are >= 0.
C1_NonNegativeTax ==
    /\ (op = "calculate_old_regime_tax" /\ args.gross_income >= 0) => NonNegative(ret)
    /\ (op = "calculate_new_regime_tax" /\ args.gross_income >= 0) => NonNegative(ret)

\* C1 witness: an old-regime call whose deductions exceed the income, clamped to 0
C1_Witness ==
    /\ op = "calculate_old_regime_tax"
    /\ args.gross_income >= 0
    /\ args.gross_income < ret.total_deductions
    /\ ret.taxable_income = 0

OtherRegime(r) == IF r = "old" THEN "new" ELSE "old"
TotalOf(r, regime) == IF regime = "old" THEN r.old_regime.total_tax ELSE r.new_regime.total_tax

\* C2: the regime compare_regimes recommends has a total tax at most that of the
\* other regime.
C2_RecommendedIsCheapest ==
    op = "compare_regimes" =>
        TotalOf(ret, ret.recommended_regime) <= TotalOf(ret, OtherRegime(ret.recommended_regime))

\* C2 witness: a comparison the old regime wins by a strictly lower tax
C2_Witness ==
    /\ op = "compare_regimes"
    /\ ret.recommended_regime = "old"
    /\ ret.old_regime.total_tax < ret.new_regime.total_tax
    /\ ret.old_regime.total_tax > 0

IsExample(a) ==
    /\ a.gross_income = 1200000
    /\ a.deductions = ("80C" :> 150000) @@ ("80D" :> 25000)

OldOfExample(r) ==
    /\ r.old_regime.taxable_income = 975000
    /\ r.old_regime.income_tax = Rupees(107500)
    /\ r.old_regime.cess = Rupees(4300)
    /\ r.old_regime.total_tax = Rupees(111800)

\* C6 as stated: for 1,200,000 with {80C: 150000, 80D: 25000} the new regime owes
\* 140,000 + 5,600 = 145,600, old is recommended and the savings are 33,800.
C6_Original ==
    (op = "compare_regimes" /\ IsExample(args)) =>
        /\ OldOfExample(ret)
        /\ ret.new_regime.taxable_income = 1150000
        /\ ret.new_regime.income_tax = Rupees(140000)
        /\ ret.new_regime.cess = Rupees(5600)
        /\ ret.new_regime.total_tax = Rupees(145600)
        /\ ret.recommended_regime = "old"
        /\ ret.savings = Rupees(33800)

\* C6 amended: for 1,200,000 with {80C: 150000, 80D: 25000} the old regime gives
\* taxable income 975,000, income tax 107,500, cess 4,300, total 111,800; the new
\* regime gives taxable income 1,150,000, income tax 82,500, cess 3,300, total
\* 85,800; the recommended regime is 'new' and the savings are 26,000.
C6_Example ==
    (op = "compare_regimes" /\ IsExample(args)) =>
        /\ OldOfExample(ret)
        /\ ret.new_regime.taxable_income = 1150000
        /\ ret.new_regime.income_tax = Rupees(82500)
        /\ ret.new_regime.cess = Rupees(3300)
        /\ ret.new_regime.total_tax = Rupees(85800)
        /\ ret.recommended_regime = "new"
        /\ ret.savings = Rupees(26000)

\* C6 witness: the comparison of the example has been made
C6_Witness == op = "compare_regimes" /\ IsExample(args) /\ ret.savings > 0

\* the rate (percent) of the bracket the n-th rupee falls in
BracketRate(slabs, n) ==
    LET i == CHOOSE j \in 1..Len(slabs) : slabs[j].min < n /\ n <= slabs[j].max
    IN  slabs[i].rate

\* C7: the slab tax is marginal: old-regime tax of 250,000 is 0 and of 250,001 is
\* 0.05, and for both tables the tax of x+1 exceeds the tax of x by exactly the
\* rate of the bracket the (x+1)-th rupee falls in.
C7_MarginalSlabTax ==
    op = "_calculate_slab_tax" =>
        /\ (args.regime = "old" /\ args.taxable_income = 250000) => ret.total_tax = 0
        /\ (args.regime = "old" /\ args.taxable_income = 250001) =>
               ret.total_tax * 20 = Rupees(1)
        /\ (calculate_slab_tax(args.taxable_income + 1, Slabs(args.regime)) - ret.total_tax) * 100
               = Rupees(BracketRate(Slabs(args.regime), args.taxable_income + 1))

\* C7 witness: the slab tax just above a bracket boundary, taxed at the new rate on
\* one rupee only
C7_Witness ==
    /\ op = "_calculate_slab_tax"
    /\ args.regime = "old"
    /\ args.taxable_income = 250001
    /\ ret.total_tax > 0

\* C8: for a fixed deductions map the taxable income never decreases when the
\* gross income grows, under both regimes.
C8_TaxableIncomeMonotone ==
    /\ op = "calculate_old_regime_tax" =>
           \A g2 \in Incomes :
               args.gross_income <= g2 =>
                   ret.taxable_income
                       <= calculate_old_regime_tax(g2, args.deductions).taxable_income
    /\ op = "calculate_new_regime_tax" =>
           \A g2 \in Incomes :
               args.gross_income <= g2 =>
                   ret.taxable_income <= calculate_new_regime_tax(g2).taxable_income

\* C8 witness: an old-regime call below its deductions, with a larger income that
\* has a larger taxable income
C8_Witness ==
    /\ op = "calculate_old_regime_tax"
    /\ args.gross_income < ret.total_deductions
    /\ \E g2 \in Incomes :
           /\ args.gross_income < g2
           /\ ret.taxable_income < calculate_old_regime_tax(g2, args.deductions).taxable_income

TieOf(r) == r.old_regime.total_tax = r.new_regime.total_tax

Accumulated(a) ==
    AddTransactions(AddAdditional([s \in DeductionSections |-> 0], a.additional_deductions),
                    a.transactions, 1)

\* C4: for any transactions and any additional_deductions, calculate_deductions
\* returns 80C <= 150000, 80D <= 25000, 80G <= 100000 and 24b <= 200000.
C4_DeductionsCapped ==
    op = "calculate_deductions" =>
        /\ ret["80C"] <= 150000
        /\ ret["80D"] <= 25000
        /\ ret["80G"] <= 100000
        /\ ret["24b"] <= 200000

\* C4 witness: home-loan interest above the 24b limit was claimed and came back
\* at the limit
C4_Witness ==
    /\ op = "calculate_deductions"
    /\ Accumulated(args)["24b"] > 200000
    /\ ret["24b"] = 200000

AllNoData(a) ==
    /\ a.payment_consistency.score = "no_data"
    /\ a.credit_utilization.score = "no_data"
    /\ a.credit_diversity.score = "no_data"
    /\ a.new_credit_inquiries.score = "no_data"
    /\ a.account_age.score = "no_data"

\* C5: for every behavior profile (every grade, known or not, on the five scored
\* factors) predict_cibil_score returns an integer in [300, 900], and exactly 600
\* when all five factors are no_data.
C5_PredictInRange ==
    op = "predict_cibil_score" =>
        /\ ret.predicted_score \in 300..900
        /\ AllNoData(args.behavior_analysis) => ret.predicted_score = 600

\* C5 witness: the prediction for the profile without any data
C5_Witness ==
    /\ op = "predict_cibil_score"
    /\ AllNoData(args.behavior_analysis)
    /\ ret.predicted_score = 600

NoFlags(r) ==
    /\ r.score_change = 0
    /\ r.timeline = "12 months"
    /\ r.key_factors = <<>>

\* C9 as stated: with no scenario flags, for every current score, the simulation
\* returns score_change 0, new_score = score, timeline "12 months", no key factors.
C9_Original ==
    (op = "simulate_scenario" /\ args.scenario_changes = {}) =>
        /\ NoFlags(ret)
        /\ ret.new_score = args.current_score

\* C9 amended: with no scenario flags the simulation returns score_change 0,
\* timeline "12 months", no key factors, and new_score = score for every current
\* score up to 900; a current score above 900 comes back as 900.
C9_NoFlagsNoChange ==
    (op = "simulate_scenario" /\ args.scenario_changes = {}) =>
        /\ NoFlags(ret)
        /\ args.current_score <= 900 => ret.new_score = args.current_score
        /\ args.current_score > 900 => ret.new_score = 900

\* C9 witness: a simulation without flags of a score in the CIBIL range
C9_Witness ==
    /\ op = "simulate_scenario"
    /\ args.scenario_changes = {}
    /\ args.current_score = 750
    /\ ret.new_score = 750

\* result.get('tax_section')
TaxSectionOf(r) == IF "tax_section" \in DOMAIN r THEN r.tax_section ELSE "null"

\* the result carries the static tax fields of the rule, Insurance being split
\* into 80D (health, medical, mediclaim in the description) and 80C
HasStaticTax(r, config, description) ==
    /\ r.tax_relevant = config.tax_relevant
    /\ TaxSectionOf(r) =
           IF config.category = "Insurance"
           THEN IF ContainsAny(Lower(description), <<"health", "medical", "mediclaim">>)
                THEN "80D" ELSE "80C"
           ELSE config.tax_section

\* C10 as stated: a description that contains a keyword of a category gets that
\* category's static tax_relevant and tax_section (Insurance: 80D with a health
\* term, else 80C).
C10_Original ==
    op = "categorize_transaction" =>
        LET description_lower == Strip(Lower(args.description))
        IN  \A i \in 1..Len(category_patterns) :
                ContainsAny(description_lower, category_patterns[i].keywords)
                    => HasStaticTax(ret, category_patterns[i], args.description)

\* C10 amended: a description gets the static tax_relevant and tax_section of the
\* first category, in rule-table order, of which it contains a keyword or matches
\* a pattern (Insurance: 80D with a health term, else 80C); keywords of later
\* categories do not count.
C10_FirstMatchStaticTax ==
    op = "categorize_transaction" =>
        LET description_lower == Strip(Lower(args.description))
            Hit(i) == Matches(category_patterns[i], description_lower)
        IN  \/ \E i \in 1..Len(category_patterns) :
                   /\ Hit(i)
                   /\ ret.category = category_patterns[i].category
                   /\ HasStaticTax(ret, category_patterns[i], args.description)
                   /\ \A j \in 1..(i - 1) : ~Hit(j)
            \/ \A i \in 1..Len(category_patterns) : ~Hit(i)

\* C10 witness: a health insurance description, filed under Insurance with 80D
C10_Witness ==
    /\ op = "categorize_transaction"
    /\ Contains(Lower(args.description), "insurance")
    /\ Contains(Lower(args.description), "health")
    /\ ret.category = "Insurance"
    /\ ret.tax_section = "80D"

\* the priority list of the categories
PriorityOrder ==
    <<"Salary", "EMI", "SIP", "Insurance", "Rent", "Utilities", "Food",
      "Transportation", "Medical", "Education", "Investment", "Shopping",
      "Entertainment", "ATM", "Transfer">>

\* the description, in lower case, matches the category at position p of
\* PriorityOrder by a keyword it contains or a pattern found in it
MatchesPriority(p, description_lower) ==
    \E k \in 1..Len(category_patterns) :
        /\ category_patterns[k].category = PriorityOrder[p]
        /\ Matches(category_patterns[k], description_lower)

\* C11: categorize_transaction is first-match in the order Salary, EMI, SIP,
\* Insurance, Rent, Utilities, Food, Transportation, Medical, Education,
\* Investment, Shopping, Entertainment, ATM, Transfer: of the categories a
\* description matches, the one returned is the earliest in that order, however
\* many keywords of a later category match.
C11_FirstMatchPriority ==
    op = "categorize_transaction" =>
        LET description_lower == Strip(Lower(args.description))
        IN  \/ \E p \in 1..Len(PriorityOrder) :
                   /\ MatchesPriority(p, description_lower)
                   /\ ret.category = PriorityOrder[p]
                   /\ \A q \in 1..(p - 1) : ~MatchesPriority(q, description_lower)
            \/ \A p \in 1..Len(PriorityOrder) : ~MatchesPriority(p, description_lower)

\* C11 witness: a description with one keyword of EMI ('emi' in 'premium') and
\* several of the later Insurance, filed under EMI
C11_Witness ==
    /\ op = "categorize_transaction"
    /\ ret.category = "EMI"
    /\ LET description_lower == Strip(Lower(args.description))
       IN  /\ KeywordHits(category_patterns[2], description_lower) = 1
           /\ KeywordHits(category_patterns[4], description_lower) >= 3

ResultKeys == {"category", "subcategory", "tax_relevant", "is_recurring"}

\* C12: categorize_transaction always returns a result with category,
\* subcategory, tax_relevant and is_recurring; when no rule matches, an amount
\* above 50,000 gives 'Investment', an amount below 1,000 with 'monthly' or
\* 'subscription' in the description gives the recurring monthly
\* 'Entertainment'/'Subscription', and everything else gives
\* 'Others'/'Miscellaneous' with tax_relevant false.
C12_FallbackByAmount ==
    op = "categorize_transaction" =>
        LET description_lower == Strip(Lower(args.description))
            unmatched == \A i \in 1..Len(category_patterns) :
                             ~Matches(category_patterns[i], description_lower)
            subscription == ContainsAny(description_lower, <<"monthly", "subscription">>)
        IN  /\ ResultKeys \subseteq DOMAIN ret
            /\ ret.tax_relevant \in BOOLEAN /\ ret.is_recurring \in BOOLEAN
            /\ unmatched =>
                   IF args.amount > 50000
                   THEN ret.category = "Investment"
                   ELSE IF args.amount < 1000 /\ subscription
                   THEN /\ ret.category = "Entertainment"
                        /\ ret.subcategory = "Subscription"
                        /\ ret.is_recurring
                        /\ ret.frequency = "monthly"
                   ELSE /\ ret.category = "Others"
                        /\ ret.subcategory = "Miscellaneous"
                        /\ ~ret.tax_relevant

\* C12 witness: an unmatched 'monthly' description of exactly 1,000, which is not
\* below 1,000 and falls to Others
C12_Witness ==
    /\ op = "categorize_transaction"
    /\ args.amount = 1000
    /\ ret.category = "Others"
    /\ LET description_lower == Strip(Lower(args.description))
       IN  /\ MatchingRules(description_lower) = {}
           /\ Contains(description_lower, "monthly")

\* C13: for every gross income < 0 and every deductions map, both regimes return
\* taxable_income 0, total_tax 0, effective_rate 0 and no negative amount.
C13_NegativeIncomeClamped ==
    (op \in {"calculate_old_regime_tax", "calculate_new_regime_tax"}
        /\ args.gross_income < 0) =>
        /\ ret.taxable_income = 0
        /\ ret.total_tax = 0
        /\ ret.effective_rate.num = 0
        /\ ret.income_tax >= 0 /\ ret.cess >= 0

\* the grades of the five scored factors of an analysis
GradesOf(analysis) ==
    [f \in ScoredFactors |-> analysis[f].score]

\* C14 as stated: for an empty transaction list the five scored factors are all
\* graded no_data and predict_cibil_score returns 600.
C14_Original ==
    (op = "analyze_financial_behavior" /\ args.transactions = <<>>) =>
        /\ AllNoData(ret)
        /\ predict_cibil_score(ret) = 600

\* C14 amended: for an empty transaction list analyze_financial_behavior returns
\* an analysis in which payment consistency, credit utilization and account age
\* are graded no_data (component score 50), credit diversity is graded bad (no
\* credit type, 25) and new-credit inquiries excellent (no new account, 95);
\* predict_cibil_score returns 604 for it.
C14_EmptyHistory ==
    (op = "analyze_financial_behavior" /\ args.transactions = <<>>) =>
        /\ GradesOf(ret) =
               [f \in ScoredFactors |->
                   CASE f = "credit_diversity" -> "bad"
                     [] f = "new_credit_inquiries" -> "excellent"
                     [] OTHER -> "no_data"]
        /\ ret.debt_to_income.score = "no_data"
        /\ ret.spending_patterns.stability = "no_data"
        /\ predict_cibil_score(ret) = 604

\* C14 witness: the analysis of the empty list, with no account age to grade
C14_Witness ==
    /\ op = "analyze_financial_behavior"
    /\ args.transactions = <<>>
    /\ ret.account_age.score = "no_data"
    /\ ret.credit_diversity.diversity_count = 0

\* both regimes of a comparison owe no tax
BothZero(old_regime, new_regime) == old_regime.total_tax = 0 /\ new_regime.total_tax = 0

\* C15: a ratio with denominator 0 is 0 and nothing fails: the savings
\* percentage when both regimes owe 0 (compare_regimes, and the comparison of the
\* calculate_tax route, which answers 200), the debt-to-income ratio when the
\* salary income is 0, the estimated utilization when the estimated limit is 0.
C15_ZeroDenominatorGuards ==
    /\ (op = "compare_regimes" /\ BothZero(ret.old_regime, ret.new_regime)) =>
           ret.savings_percentage.num = 0
    /\ (op = "calculate_tax" /\ args.user_id \in Users /\ args.transactions # <<>>) =>
           LET calc == TaxCalculationData(args.transactions, args.additional_deductions)
           IN  BothZero(calc.old_regime, calc.new_regime) =>
                   /\ ret.status = 200
                   /\ ret.calculation.comparison.savings_percentage.num = 0
    /\ op = "analyze_financial_behavior" =>
           /\ (\A i \in 1..Len(args.transactions) :
                   IsSalaryCredit(args.transactions[i]) => args.transactions[i].amount = 0)
                  => ret.debt_to_income.ratio.num = 0
           /\ (\A i \in 1..Len(args.transactions) :
                   (IsCreditText(args.transactions[i])
                       /\ args.transactions[i].transaction_type = "debit")
                       => args.transactions[i].amount = 0)
                  => ret.credit_utilization.estimated_utilization.num = 0

\* the months from date a to date b, both included
MonthIndex(date) == date.year * 12 + date.month

\* C17: the payment consistency is the percentage of the months with an EMI debit
\* out of all the months from the first to the last EMI payment, graded >= 95
\* excellent, >= 85 good, >= 70 fair, >= 50 poor, else bad.
C17_ConsistencyOverSpan ==
    op = "analyze_financial_behavior" =>
        LET emi == {i \in 1..Len(args.transactions) :
                       /\ args.transactions[i].category = "EMI"
                       /\ args.transactions[i].transaction_type = "debit"}
            paid == {MonthIndex(args.transactions[i].date) : i \in emi}
            first == CHOOSE m \in paid : \A n \in paid : m <= n
            last == CHOOSE m \in paid : \A n \in paid : m >= n
            percent == Ratio(100 * Cardinality(paid), last - first + 1)
        IN  emi # {} =>
                /\ ret.payment_consistency.consistency.num * percent.den
                       = percent.num * ret.payment_consistency.consistency.den
                /\ ret.payment_consistency.score =
                       IF AtLeast(percent, 95) THEN "excellent"
                       ELSE IF AtLeast(percent, 85) THEN "good"
                       ELSE IF AtLeast(percent, 70) THEN "fair"
                       ELSE IF AtLeast(percent, 50) THEN "poor"
                       ELSE "bad"

\* additional_deductions[section] plus the amounts of the tax-relevant debits of
\* the section
Claimed(a, section) ==
    (IF section \in DOMAIN a.additional_deductions
     THEN a.additional_deductions[section] ELSE 0)
    + SumAmounts(a.transactions,
                 {i \in 1..Len(a.transactions) :
                     /\ a.transactions[i].transaction_type = "debit"
                     /\ a.transactions[i].tax_relevant
                     /\ a.transactions[i].tax_section = section})

\* C16: calculate_deductions accumulates, then clamps, per section: 80C, 80D, 80G
\* and 24b are min(limit, additional_deductions[section] + the amounts of the
\* tax-relevant debit transactions of that section); what exceeds a limit is
\* dropped and goes to no other section; credits, transactions that are not tax
\* relevant and sections outside {80C, 80D, 80G, 24b, HRA} add nothing.
C16_AccumulateThenClamp ==
    op = "calculate_deductions" =>
        /\ DOMAIN ret = {"80C", "80D", "80G", "24b", "HRA"}
        /\ ret["80C"] = Min(150000, Claimed(args, "80C"))
        /\ ret["80D"] = Min(25000, Claimed(args, "80D"))
        /\ ret["80G"] = Min(100000, Claimed(args, "80G"))
        /\ ret["24b"] = Min(200000, Claimed(args, "24b"))
        /\ ret["HRA"] = Claimed(args, "HRA")

\* C16 witness: two transactions that together exceed the 80C limit although
\* neither does alone, next to an additional 80G deduction that stays as claimed
C16_Witness ==
    /\ op = "calculate_deductions"
    /\ Len(args.transactions) = 2
    /\ \A i \in 1..2 : args.transactions[i].amount < 150000
    /\ Claimed(args, "80C") > 150000
    /\ ret["80C"] = 150000
    /\ Claimed(args, "80G") > 0
    /\ ret["80G"] = Claimed(args, "80G")

\* the category of the recommendation block of a factor
BlockCategory(factor) ==
    CASE factor = "payment_consistency" -> "Payment History"
      [] factor = "credit_utilization" -> "Credit Utilization"
      [] factor = "credit_diversity" -> "Credit Mix"
      [] factor = "new_credit_inquiries" -> "New Credit"
      [] factor = "account_age" -> "Account Age"

\* the factor is graded poor or bad, or it is the utilization graded fair
NeedsBlock(behavior_analysis, factor) ==
    \/ behavior_analysis[factor].score \in {"poor", "bad"}
    \/ factor = "credit_utilization" /\ behavior_analysis[factor].score = "fair"

BlocksOf(recommendations, category) ==
    {i \in 1..Len(recommendations) : recommendations[i].category = category}

\* C18 as stated: one block for each of the five scored factors graded poor or
\* bad (credit utilization also when fair) and no other block.
C18_Original ==
    op = "generate_recommendations" =>
        Len(ret.recommendations) =
            Cardinality({f \in ScoredFactors : NeedsBlock(args.behavior_analysis, f)})

\* C18 amended: generate_recommendations emits exactly one block for each of
\* payment consistency, credit diversity and new-credit inquiries graded poor or
\* bad and for credit utilization graded poor, bad or fair, none for a factor
\* graded otherwise, and never a block for the account age, whatever its grade.
C18_FourFactorBlocks ==
    op = "generate_recommendations" =>
        /\ \A f \in ScoredFactors \ {"account_age"} :
               Cardinality(BlocksOf(ret.recommendations, BlockCategory(f))) =
                   IF NeedsBlock(args.behavior_analysis, f) THEN 1 ELSE 0
        /\ Len(ret.recommendations) =
               Cardinality({f \in ScoredFactors \ {"account_age"} :
                               NeedsBlock(args.behavior_analysis, f)})

\* C18 witness: a fair utilization gets its block, a bad account age gets none
C18_Witness ==
    /\ op = "generate_recommendations"
    /\ args.behavior_analysis.account_age.score = "bad"
    /\ args.behavior_analysis.credit_utilization.score = "fair"
    /\ Len(ret.recommendations) = 1
    /\ ret.recommendations[1].category = "Credit Utilization"

\* the month from which a recommendation category counts (0: never)
TriggerMonth(category) ==
    CASE category = "Credit Utilization" -> 3
      [] category = "Payment History" -> 6
      [] category = "New Credit" -> 12
      [] category = "Credit Mix" -> 18
      [] OTHER -> 0

\* the checkpoints at which a category of the recommendations has been triggered
TriggeredCheckpoints(recommendations) ==
    {m \in {3, 6, 9, 12, 18, 24} :
        \E i \in 1..Len(recommendations) :
            /\ TriggerMonth(recommendations[i].category) > 0
            /\ TriggerMonth(recommendations[i].category) <= m}

\* C19: create_improvement_timeline has a milestone exactly for the checkpoints
\* of {3, 6, 9, 12, 18, 24} at which a recommendation category has reached its
\* trigger month (Credit Utilization 3, Payment History 6, New Credit 12, Credit
\* Mix 18), in ascending order of the month, every projected_score is at most
\* 900, and the timeline is empty when there is no recommendation.
C19_TimelineMilestones ==
    op = "create_improvement_timeline" =>
        LET timeline == ret.timeline
        IN  /\ {timeline[i].month : i \in 1..Len(timeline)}
                   = TriggeredCheckpoints(args.recommendations)
            /\ \A i \in 1..Len(timeline) : \A j \in 1..Len(timeline) :
                   i < j => timeline[i].month < timeline[j].month
            /\ \A i \in 1..Len(timeline) : timeline[i].projected_score <= 900
            /\ args.recommendations = <<>> => timeline = <<>>

\* C19 witness: the Credit Mix recommendation alone, from a score close to 900:
\* milestones at 18 and at 24 months only, capped at 900
C19_Witness ==
    /\ op = "create_improvement_timeline"
    /\ Len(args.recommendations) = 1
    /\ args.recommendations[1].category = "Credit Mix"
    /\ args.current_score = 899
    /\ Len(ret.timeline) = 2
    /\ ret.timeline[1].month = 18
    /\ ret.timeline[2].month = 24
    /\ ret.timeline[2].projected_score = 900

\* the months of the flags of simulate_scenario
FlagMonths(flag) ==
    CASE flag = "pay_off_credit_cards" -> 3
      [] flag = "never_miss_payments" -> 6
      [] flag = "add_credit_type" -> 12
      [] flag = "no_new_applications" -> 6
      [] OTHER -> 0

\* C20: the timeline of simulate_scenario is the maximum of the months of the
\* triggered flags (pay_off_credit_cards 3, never_miss_payments 6,
\* add_credit_type 12, no_new_applications 6), and "12 months" when no flag is
\* triggered; never_miss_payments alone gives "6 months".
C20_TimelineIsMaxOfFlags ==
    op = "simulate_scenario" =>
        LET months == {FlagMonths(f) : f \in args.scenario_changes} \ {0}
        IN  ret.timeline =
                IF months = {} THEN "12 months"
                ELSE MonthsText(CHOOSE m \in months : \A n \in months : m >= n)

\* the items of current_deductions whose section has an int limit
NumericItems(current_deductions) ==
    {i \in 1..Len(current_deductions) :
        /\ current_deductions[i].section \in DOMAIN optimization_strategies
        /\ optimization_strategies[current_deductions[i].section].is_int}

\* limit - current, floored at 0
Headroom(item) == Max(0, optimization_strategies[item.section].limit - item.amount)

\* C21: _identify_deduction_opportunities gives every section with a numeric
\* limit the headroom max(0, limit - current) (a section it does not list has
\* headroom 0), and the list it returns is in descending order of
\* remaining_opportunity, whatever the order of the sections in
\* current_deductions.
C21_RankedByRemainingOpportunity ==
    op = "_identify_deduction_opportunities" =>
        LET current_deductions == args.current_deductions
            opportunities == ret.opportunities
        IN  /\ \A i \in NumericItems(current_deductions) :
                   \/ \E j \in 1..Len(opportunities) :
                          /\ opportunities[j].section = current_deductions[i].section
                          /\ opportunities[j].remaining_opportunity
                                 = Headroom(current_deductions[i])
                   \/ Headroom(current_deductions[i]) = 0
            /\ \A j, k \in 1..Len(opportunities) :
                   j < k => opportunities[j].remaining_opportunity
                                >= opportunities[k].remaining_opportunity

\* the unused headroom of the four sections of the summary: the sum over 80C,
\* 80D, 80G and 24b of max(0, limit - current), a section that is absent counting
\* as 0
RECURSIVE UsedWithinLimits(_, _)
UsedWithinLimits(current_deductions, i) ==
    IF i > Len(current_deductions) THEN 0
    ELSE (IF i \in NumericItems(current_deductions)
          THEN optimization_strategies[current_deductions[i].section].limit
                   - Headroom(current_deductions[i])
          ELSE 0) + UsedWithinLimits(current_deductions, i + 1)

UnusedHeadroom(current_deductions) ==
    max_possible_deductions - UsedWithinLimits(current_deductions, 1)

\* C22: estimated_tax_savings is the unused headroom of 80C, 80D, 80G and 24b
\* times the marginal rate of 0, 5, 10, 15, 20 or 30 percent of the gross income,
\* and is never negative, also when current_deductions holds an HRA amount or a
\* total.
C22_SavingsFromUnusedHeadroom ==
    op = "_get_optimization_summary" =>
        LET rate == CASE args.gross_income <= 300000 -> 0
                      [] args.gross_income > 300000 /\ args.gross_income <= 600000 -> 5
                      [] args.gross_income > 600000 /\ args.gross_income <= 900000 -> 10
                      [] args.gross_income > 900000 /\ args.gross_income <= 1200000 -> 15
                      [] args.gross_income > 1200000 /\ args.gross_income <= 1500000 -> 20
                      [] OTHER -> 30
        IN  /\ ret.estimated_tax_savings.num * 100
                   = UnusedHeadroom(args.current_deductions) * rate
                         * ret.estimated_tax_savings.den
            /\ ret.estimated_tax_savings.num >= 0

\* C23: every CibilScore row saved by the analyze route has a predicted_score in
\* 300..900, whether the caller supplied a current_score or not.
C23_SavedPredictedScoreInRange ==
    \A id \in 1..Len(cibil_scores) :
        cibil_scores[id].predicted_score \in 300..900

\* the request in progress is an analyze that succeeded
AnalyzeSucceeded == op = "analyze_cibil_score" /\ ret.status = 200

\* C24: the CibilScore table is append-only: a successful analyze adds exactly one
\* row at the end, and every other step (a failed analyze, simulate, history,
\* recommendations) leaves the table as it is; no row that exists is modified or
\* deleted.
C24_AppendOnlyHistory ==
    [][ IF AnalyzeSucceeded'
        THEN /\ Len(cibil_scores') = Len(cibil_scores) + 1
             /\ SubSeq(cibil_scores', 1, Len(cibil_scores)) = cibil_scores
             /\ cibil_scores'[Len(cibil_scores')] = ret'.analysis
        ELSE cibil_scores' = cibil_scores ]_vars

\* C24 witness: a second analysis was added after a failed analyze, a simulation,
\* a history and a recommendations request were possible on the first
C24_Witness ==
    /\ AnalyzeSucceeded
    /\ Len(cibil_scores) = 2
    /\ cibil_scores[1] # cibil_scores[2]

\* C25: update_transaction_category changes, of the addressed transaction only,
\* only those of category, subcategory, tax_relevant and tax_section that are
\* keys of the request: date, description, amount, transaction_type,
\* is_recurring and recurring_frequency and every other transaction keep their
\* values, no transaction is created or deleted, and an unknown id changes
\* nothing.
C25_OverrideFrame ==
    [][ op' = "update_transaction_category" =>
            /\ Len(transactions_table') = Len(transactions_table)
            /\ \A id \in 1..Len(transactions_table) :
                   /\ DOMAIN transactions_table'[id] = DOMAIN transactions_table[id]
                   /\ \A f \in DOMAIN transactions_table[id] :
                          transactions_table'[id][f] # transactions_table[id][f]
                              => /\ id = args'.transaction_id
                                 /\ f \in OverrideFields
                                 /\ f \in DOMAIN args'.data
            /\ args'.transaction_id \notin 1..Len(transactions_table)
                   => transactions_table' = transactions_table ]_vars

\* C25 witness: of two stored transactions the second was overridden with a
\* category only: it is 'Food' with the subcategory and the recurrence the
\* categorizer gave it, and the first is as it was uploaded
C25_Witness ==
    /\ op = "update_transaction_category"
    /\ ret.status = 200
    /\ args.transaction_id = 2
    /\ DOMAIN args.data = {"category"}
    /\ Len(transactions_table) = 2
    /\ transactions_table[2].category = "Food"
    /\ transactions_table[2].subcategory = "Subscription"
    /\ transactions_table[2].is_recurring
    /\ transactions_table[1].category = "EMI"

\* income_tax and total_tax of a result are the slab tax of the taxable income
\* and that tax with 4% cess, a 25th of it, on top
FullTaxDue(r, slabs) ==
    /\ r.income_tax = calculate_slab_tax(r.taxable_income, slabs)
    /\ (r.total_tax - r.income_tax) * 25 = r.income_tax

\* C26: calculate_old_regime_tax returns income_tax = 0 and total_tax = 0 for
\* every taxable_income <= 500,000 and calculate_new_regime_tax for every
\* taxable_income <= 700,000; above the threshold the full slab tax plus 4% cess
\* is due, one rupee above it 12,500.20 plus cess (old) and 25,000.10 plus cess
\* (new).
C26_RebateBelowThreshold ==
    /\ op = "calculate_old_regime_tax" =>
           /\ ret.taxable_income <= 500000 => ret.income_tax = 0 /\ ret.total_tax = 0
           /\ ret.taxable_income > 500000 => FullTaxDue(ret, old_regime_slabs)
           /\ ret.taxable_income = 500001 =>
                  ret.income_tax = Rupees(12500) + Scale \div 5
    /\ op = "calculate_new_regime_tax" =>
           /\ ret.taxable_income <= 700000 => ret.income_tax = 0 /\ ret.total_tax = 0
           /\ ret.taxable_income > 700000 => FullTaxDue(ret, new_regime_slabs)
           /\ ret.taxable_income = 700001 =>
                  ret.income_tax = Rupees(25000) + Scale \div 10

\* C26 witness: a taxable income of exactly 500,000 under the old regime, whose
\* slab tax of 12,500 the rebate removes
C26_Witness ==
    /\ op = "calculate_old_regime_tax"
    /\ ret.taxable_income = 500000
    /\ calculate_slab_tax(ret.taxable_income, old_regime_slabs) = Rupees(12500)
    /\ ret.total_tax = 0

\* C27: for a fixed deductions map total_tax never decreases when the gross
\* income grows, under both regimes, also from an income that gets the rebate to
\* one that does not.
C27_TotalTaxMonotone ==
    /\ op = "calculate_old_regime_tax" =>
           \A g2 \in Incomes :
               args.gross_income <= g2 =>
                   ret.total_tax
                       <= calculate_old_regime_tax(g2, args.deductions).total_tax
    /\ op = "calculate_new_regime_tax" =>
           \A g2 \in Incomes :
               args.gross_income <= g2 =>
                   ret.total_tax <= calculate_new_regime_tax(g2).total_tax

\* C27 witness: a new-regime call at the rebate threshold, which owes nothing,
\* and an income one rupee larger that owes the full tax
C27_Witness ==
    /\ op = "calculate_new_regime_tax"
    /\ ret.taxable_income = RebateLimitNew
    /\ ret.total_tax = 0
    /\ \E g2 \in Incomes :
           /\ g2 = args.gross_income + 1
           /\ calculate_new_regime_tax(g2).total_tax > Rupees(25000)

\* the terms that make a large amount a 'Large Transfer' in the fallback
TransferTerms == <<"transfer", "neft", "imps">>

\* C28: categorize_transaction never returns the subcategory 'Large Transfer':
\* a description that contains 'transfer', 'neft' or 'imps' matches a category of
\* the rule table, so the fallback does not run for it, and an Investment result
\* of the fallback (no rule matches, amount above 50,000) has the subcategory
\* 'Major Purchase'.
C28_LargeTransferUnreachable ==
    op = "categorize_transaction" =>
        LET description_lower == Strip(Lower(args.description))
            Hit(i) == Matches(category_patterns[i], description_lower)
        IN  /\ ret.subcategory # "Large Transfer"
            /\ ContainsAny(Lower(args.description), TransferTerms)
                   => /\ \E i \in 1..Len(category_patterns) : Hit(i)
                      /\ ret.category \in
                             {category_patterns[i].category :
                                 i \in 1..Len(category_patterns)}
                      /\ ret.subcategory # "Major Purchase"
            /\ (args.amount > 50000 /\ \A i \in 1..Len(category_patterns) : ~Hit(i))
                   => /\ ret.category = "Investment"
                      /\ ret.subcategory = "Major Purchase"

\* C28 witness: a description with 'neft' in it and an amount above 50,000, filed
\* under Transfer by the rule table
C28_Witness ==
    /\ op = "categorize_transaction"
    /\ args.amount > 50000
    /\ Contains(Lower(args.description), "neft")
    /\ ret.category = "Transfer"

\* the scored grades of two behavior analyses agree
SameScoredGrades(a, b) ==
    /\ a.payment_consistency.score = b.payment_consistency.score
    /\ a.credit_utilization.score = b.credit_utilization.score
    /\ a.credit_diversity.score = b.credit_diversity.score
    /\ a.new_credit_inquiries.score = b.new_credit_inquiries.score
    /\ a.account_age.score = b.account_age.score

AllGraded(a, grade) ==
    /\ a.payment_consistency.score = grade
    /\ a.credit_utilization.score = grade
    /\ a.credit_diversity.score = grade
    /\ a.new_credit_inquiries.score = grade
    /\ a.account_age.score = grade

\* C29: predict_cibil_score always lies in [450, 870] (all five factors bad
\* gives 450, all excellent 870), so the clamp to [300, 900] never changes the
\* result; and the result depends only on the grades of the five scored
\* factors: any debt_to_income and spending_patterns with the same five grades
\* give the same score.
C29_PredictWithinClamp ==
    op = "predict_cibil_score" =>
        LET a == args.behavior_analysis
        IN  /\ ret.predicted_score \in 450..870
            /\ AllGraded(a, "bad") => ret.predicted_score = 450
            /\ AllGraded(a, "excellent") => ret.predicted_score = 870
            /\ ret.predicted_score = PredictedScore(WeightedScore(a))
            /\ \A unscored \in UnscoredAnalyses :
                  LET b == [a EXCEPT !.debt_to_income = unscored.debt_to_income,
                                     !.spending_patterns = unscored.spending_patterns]
                  IN  SameScoredGrades(a, b)
                          /\ predict_cibil_score(b) = ret.predicted_score

\* C29 witness: the lowest prediction, for five bad grades next to an
\* excellent debt-to-income grade
C29_Witness ==
    /\ op = "predict_cibil_score"
    /\ AllGraded(args.behavior_analysis, "bad")
    /\ args.behavior_analysis.debt_to_income.score = "excellent"
    /\ ret.predicted_score = 450

\* the points of a recommendation category (0: none)
CategoryDelta(category) ==
    CASE category = "Credit Utilization" -> 15
      [] category = "Payment History" -> 20
      [] category = "New Credit" -> 10
      [] category = "Credit Mix" -> 15
      [] OTHER -> 0

\* the sum of the deltas of the recommendations i.. whose trigger month is due
RECURSIVE DueIncrease(_, _, _)
DueIncrease(month, recommendations, i) ==
    IF i > Len(recommendations) THEN 0
    ELSE (IF /\ TriggerMonth(recommendations[i].category) > 0
             /\ TriggerMonth(recommendations[i].category) <= month
          THEN CategoryDelta(recommendations[i].category) ELSE 0)
         + DueIncrease(month, recommendations, i + 1)

\* C30: in create_improvement_timeline a category's delta is added to the
\* running projected score again at every checkpoint at or after its trigger
\* month: each milestone has score_increase = the sum of the deltas of the
\* recommendations whose trigger month is <= the milestone month, and
\* projected_score = min(900, previous projected_score + score_increase); with a
\* Credit Utilization recommendation only and current score s the six
\* milestones project min(900, s + 15k), k = 1..6.
C30_DeltasAddedAtEveryCheckpoint ==
    op = "create_improvement_timeline" =>
        LET timeline == ret.timeline
            previous(j) == IF j = 1 THEN args.current_score
                           ELSE timeline[j - 1].projected_score
        IN  /\ \A j \in 1..Len(timeline) :
                  /\ timeline[j].score_increase =
                         DueIncrease(timeline[j].month, args.recommendations, 1)
                  /\ timeline[j].projected_score =
                         Min(900, previous(j) + timeline[j].score_increase)
            /\ (/\ Len(args.recommendations) = 1
                /\ args.recommendations[1].category = "Credit Utilization")
                   => /\ Len(timeline) = 6
                      /\ \A k \in 1..6 :
                            timeline[k].projected_score =
                                Min(900, args.current_score + 15 * k)

\* C30 witness: one Credit Utilization recommendation at 845 climbs by 15 at
\* each checkpoint until the cap
C30_Witness ==
    /\ op = "create_improvement_timeline"
    /\ Len(args.recommendations) = 1
    /\ args.recommendations[1].category = "Credit Utilization"
    /\ args.current_score = 845
    /\ Len(ret.timeline) = 6
    /\ ret.timeline[3].projected_score = 890
    /\ ret.timeline[4].projected_score = 900
    /\ ret.timeline[6].score_increase = 15

====
